---------------------------- MODULE Spec2Model ----------------------------
(***************************************************************************)
(* Commit classification and scoring of the code-analyzer front end.       *)
(*                                                                         *)
(* A JavaScript string is modelled as a sequence of one-character strings, *)
(* so that toLowerCase, replace, split, includes and RegExp.test are       *)
(* computed character by character, as the engine computes them.           *)
(***************************************************************************)
EXTENDS Integers, Sequences, FiniteSets, TLC

VARIABLES
    commit,   \* the commit record the functions are applied to
    op,       \* the function called last ("" when no call is pending)
    arg,      \* hasPattern: which pattern list was passed (0 otherwise)
    ret,      \* the value that call returned
    insights,            \* the analysis shown: latest_commit and the
                         \* selected author's commits, as the API sent them
    commitAnalysisData,  \* detailed_commit_info of the per-commit analysis
    selectedAuthor,      \* AnalysisResults: the author whose commits show
    sortOrder,           \* AnalysisResults: 'newest' or 'oldest'
    modal,               \* CommitAnalysisModal: its props, its state and
                         \* the requests it has sent
    tabs,                \* MainTabs: the user's plan and the state
    report,              \* ReportAnalysis: the branch selection state
    pendingEffects       \* the effects React has scheduled and not yet run

\* the state of the components
components == <<selectedAuthor, sortOrder, modal, tabs, report, pendingEffects>>

vars == <<commit, op, arg, ret, insights, commitAnalysisData, components>>

(***************************************************************************)
(* Characters and the String primitives of the engine                      *)
(***************************************************************************)
LowerLetters ==
    <<"a","b","c","d","e","f","g","h","i","j","k","l","m",
      "n","o","p","q","r","s","t","u","v","w","x","y","z">>

UpperLetters ==
    <<"A","B","C","D","E","F","G","H","I","J","K","L","M",
      "N","O","P","Q","R","S","T","U","V","W","X","Y","Z">>

Digits == {"0","1","2","3","4","5","6","7","8","9"}

Letters(seq) == {seq[i] : i \in 1..Len(seq)}

\* \w of a RegExp without the u flag: [A-Za-z0-9_]
WordChars == Letters(LowerLetters) \cup Letters(UpperLetters) \cup Digits \cup {"_"}

IsWordChar(c) == c \in WordChars

\* \s of a RegExp (the white space that occurs in commit messages)
IsSpace(c) == c \in {" ", "\t", "\n", "\r", "\f"}

\* String.prototype.toLowerCase on one character
ToLower ==
    [c \in Letters(UpperLetters) |->
        LowerLetters[CHOOSE i \in 1..26 : UpperLetters[i] = c]]

LowerChar(c) == IF c \in DOMAIN ToLower THEN ToLower[c] ELSE c

\* String.prototype.toLowerCase
toLowerCase(s) == [i \in 1..Len(s) |-> LowerChar(s[i])]

\* s.replace(/[^\w\s]/g, ' ')
ReplaceSpecial(s) ==
    [i \in 1..Len(s) |-> IF IsWordChar(s[i]) \/ IsSpace(s[i]) THEN s[i] ELSE " "]

\* String.prototype.includes: sub occurs in s (the empty string always does)
includes(s, sub) ==
    \E i \in 0..(Len(s) - Len(sub)) :
        \A k \in 1..Len(sub) : s[i + k] = sub[k]

\* s.split(/\s+/): the pieces between maximal runs of white space; a run at
\* the start or the end leaves an empty piece, and "" splits into <<"">>.
RECURSIVE SplitFrom(_, _, _, _)
SplitFrom(s, i, cur, acc) ==
    IF i > Len(s) THEN Append(acc, cur)
    ELSE IF IsSpace(s[i])
         THEN IF i > 1 /\ IsSpace(s[i - 1])
              THEN SplitFrom(s, i + 1, cur, acc)
              ELSE SplitFrom(s, i + 1, <<>>, Append(acc, cur))
         ELSE SplitFrom(s, i + 1, Append(cur, s[i]), acc)

split(s) == SplitFrom(s, 1, <<>>, <<>>)

(***************************************************************************)
(* RegExp.prototype.test for the regular expressions of the rule lists.    *)
(* A regular expression is a tree; Ends(r, s, i) is the set of positions   *)
(* just after a match of r that starts at position i of s.  All the        *)
(* expressions of the source carry the i flag and none the g flag, so      *)
(* test is stateless and compares letters without case.                    *)
(***************************************************************************)
Lit(s)   == [t |-> "lit", s |-> s]
Cat(xs)  == [t |-> "cat", xs |-> xs]
Alt(xs)  == [t |-> "alt", xs |-> xs]
Opt(x)   == [t |-> "opt", x |-> x]
Star(x)  == [t |-> "star", x |-> x]
Plus(x)  == [t |-> "plus", x |-> x]
WordCls  == [t |-> "w"]
SpaceCls == [t |-> "s"]

RECURSIVE Ends(_, _, _)
RECURSIVE CatEnds(_, _, _, _)
RECURSIVE StarEnds(_, _, _)

Ends(r, s, i) ==
    CASE r.t = "lit"  ->
            IF /\ i + Len(r.s) - 1 <= Len(s)
               /\ \A k \in 1..Len(r.s) : LowerChar(s[i + k - 1]) = LowerChar(r.s[k])
            THEN {i + Len(r.s)} ELSE {}
      [] r.t = "w"    -> IF i <= Len(s) /\ IsWordChar(s[i]) THEN {i + 1} ELSE {}
      [] r.t = "s"    -> IF i <= Len(s) /\ IsSpace(s[i]) THEN {i + 1} ELSE {}
      [] r.t = "cat"  -> CatEnds(r.xs, 1, s, {i})
      [] r.t = "alt"  -> UNION {Ends(r.xs[k], s, i) : k \in 1..Len(r.xs)}
      [] r.t = "opt"  -> {i} \cup Ends(r.x, s, i)
      [] r.t = "star" -> StarEnds(r.x, s, {i})
      [] r.t = "plus" -> StarEnds(r.x, s, Ends(r.x, s, i))

CatEnds(xs, k, s, from) ==
    IF k > Len(xs) \/ from = {} THEN from
    ELSE CatEnds(xs, k + 1, s, UNION {Ends(xs[k], s, j) : j \in from})

StarEnds(x, s, from) ==
    LET more == from \cup UNION {Ends(x, s, j) : j \in from}
    IN  IF more = from THEN from ELSE StarEnds(x, s, more)

\* pattern.test(msg): the expression matches somewhere in msg
RegExpTest(r, s) == \E i \in 1..(Len(s) + 1) : Ends(r, s, i) # {}


(***************************************************************************)
(* The pattern lists of determineSSMCategory.  A literal pattern is        *)
(* Str(characters); anything else in a list is a RegExp.                   *)
(***************************************************************************)
Str(s) == [t |-> "str", s |-> s]

\* /merge (branch|pull request|pr|changes?)/i
MergeRe ==
    Cat(<<Lit(<<"m","e","r","g","e"," ">>),
          Alt(<<Lit(<<"b","r","a","n","c","h">>),
                Lit(<<"p","u","l","l"," ","r","e","q","u","e","s","t">>),
                Lit(<<"p","r">>),
                Cat(<<Lit(<<"c","h","a","n","g","e">>), Opt(Lit(<<"s">>))>>)>>)>>)

\* /revert/i
RevertRe == Lit(<<"r","e","v","e","r","t">>)

\* (\(\w+\))?
ScopeRe == Opt(Cat(<<Lit(<<"(">>), Plus(WordCls), Lit(<<")">>)>>))

\* (\s*\(\w+\))?
SpacedScopeRe ==
    Opt(Cat(<<Star(SpaceCls), Lit(<<"(">>), Plus(WordCls), Lit(<<")">>)>>))

\* /feat(\(\w+\))?:/i
FeatRe == Cat(<<Lit(<<"f","e","a","t">>), ScopeRe, Lit(<<":">>)>>)

\* /fix(\(\w+\))?:/i
FixRe == Cat(<<Lit(<<"f","i","x">>), ScopeRe, Lit(<<":">>)>>)

\* /docs?(\s*\(\w+\))?:/i
DocsRe ==
    Cat(<<Lit(<<"d","o","c">>), Opt(Lit(<<"s">>)), SpacedScopeRe, Lit(<<":">>)>>)

\* /test(s|ing)?(\s*\(\w+\))?:/i
TestRe ==
    Cat(<<Lit(<<"t","e","s","t">>),
          Opt(Alt(<<Lit(<<"s">>), Lit(<<"i","n","g">>)>>)),
          SpacedScopeRe, Lit(<<":">>)>>)

\* AnalysisResults.tsx 123-132
IntegrationPatterns == <<
    MergeRe,  \* a RegExp
    Str(<<"p","u","l","l"," ","r","e","q","u","e","s","t">>),  \* 'pull request'
    Str(<<"m","e","r","g","e">>),  \* 'merge'
    Str(<<"i","n","t","e","g","r","a","t","e">>),  \* 'integrate'
    Str(<<"s","q","u","a","s","h">>),  \* 'squash'
    Str(<<"r","e","b","a","s","e">>),  \* 'rebase'
    Str(<<"m","e","r","g","e"," ","b","r","a","n","c","h">>),  \* 'merge branch'
    Str(<<"m","e","r","g","e"," ","p","u","l","l">>)  \* 'merge pull'
>>

\* AnalysisResults.tsx 137-144
RollbackPatterns == <<
    RevertRe,  \* a RegExp
    Str(<<"r","o","l","l","b","a","c","k">>),  \* 'rollback'
    Str(<<"u","n","d","o">>),  \* 'undo'
    Str(<<"b","a","c","k"," ","o","u","t">>),  \* 'back out'
    Str(<<"r","e","v","e","r","t"," ","c","h","a","n","g","e","s">>),  \* 'revert changes'
    Str(<<"r","o","l","l"," ","b","a","c","k">>)  \* 'roll back'
>>

\* AnalysisResults.tsx 149-159
ArchitecturalPatterns == <<
    Str(<<"a","r","c","h","i","t","e","c","t","u","r">>),  \* 'architectur'
    Str(<<"r","e","f","a","c","t","o","r"," ","a","r","c","h","i","t","e","c","t">>),  \* 'refactor architect'
    Str(<<"r","e","f","a","c","t","o","r"," ","s","t","r","u","c","t","u","r","e">>),  \* 'refactor structure'
    Str(<<"r","e","f","a","c","t","o","r"," ","d","e","s","i","g","n">>),  \* 'refactor design'
    Str(<<"m","a","j","o","r"," ","r","e","f","a","c","t","o","r">>),  \* 'major refactor'
    Str(<<"r","e","s","t","r","u","c","t","u","r","e">>),  \* 'restructure'
    Str(<<"r","e","d","e","s","i","g","n">>),  \* 'redesign'
    Str(<<"s","y","s","t","e","m"," ","d","e","s","i","g","n">>),  \* 'system design'
    Str(<<"a","r","c","h","i","t","e","c","t","u","r","e"," ","c","h","a","n","g","e">>)  \* 'architecture change'
>>

\* AnalysisResults.tsx 164-173
FeaturePatterns == <<
    FeatRe,  \* a RegExp
    Str(<<"a","d","d"," ","f","e","a","t","u","r","e">>),  \* 'add feature'
    Str(<<"n","e","w"," ","f","e","a","t","u","r","e">>),  \* 'new feature'
    Str(<<"i","m","p","l","e","m","e","n","t">>),  \* 'implement'
    Str(<<"f","e","a","t","u","r","e"," ","i","m","p","l","e","m","e","n","t","a","t","i","o","n">>),  \* 'feature implementation'
    Str(<<"a","d","d"," ","n","e","w">>),  \* 'add new'
    Str(<<"i","n","t","r","o","d","u","c","e">>),  \* 'introduce'
    Str(<<"c","r","e","a","t","e"," ","n","e","w">>)  \* 'create new'
>>

\* AnalysisResults.tsx 178-190
BugFixPatterns == <<
    FixRe,  \* a RegExp
    Str(<<"b","u","g","f","i","x">>),  \* 'bugfix'
    Str(<<"b","u","g"," ","f","i","x">>),  \* 'bug fix'
    Str(<<"f","i","x"," ","b","u","g">>),  \* 'fix bug'
    Str(<<"f","i","x"," ","i","s","s","u","e">>),  \* 'fix issue'
    Str(<<"f","i","x"," ","e","r","r","o","r">>),  \* 'fix error'
    Str(<<"r","e","s","o","l","v","e"," ","i","s","s","u","e">>),  \* 'resolve issue'
    Str(<<"b","u","g"," ","r","e","p","o","r","t">>),  \* 'bug report'
    Str(<<"e","r","r","o","r"," ","f","i","x">>),  \* 'error fix'
    Str(<<"c","r","a","s","h"," ","f","i","x">>),  \* 'crash fix'
    Str(<<"b","u","g","s"," ","f","i","x","e","d">>)  \* 'bugs fixed'
>>

\* AnalysisResults.tsx 195-206
DocumentationPatterns == <<
    DocsRe,  \* a RegExp
    Str(<<"d","o","c","u","m","e","n","t","a","t","i","o","n">>),  \* 'documentation'
    Str(<<"u","p","d","a","t","e"," ","d","o","c","s">>),  \* 'update docs'
    Str(<<"i","m","p","r","o","v","e"," ","d","o","c","s">>),  \* 'improve docs'
    Str(<<"a","d","d"," ","d","o","c","s">>),  \* 'add docs'
    Str(<<"r","e","a","d","m","e">>),  \* 'readme'
    Str(<<"c","h","a","n","g","e","l","o","g">>),  \* 'changelog'
    Str(<<"l","i","c","e","n","s","e">>),  \* 'license'
    Str(<<"d","o","c"," ","u","p","d","a","t","e">>),  \* 'doc update'
    Str(<<"u","p","d","a","t","e"," ","r","e","a","d","m","e">>)  \* 'update readme'
>>

\* AnalysisResults.tsx 211-221
TestPatterns == <<
    TestRe,  \* a RegExp
    Str(<<"a","d","d"," ","t","e","s","t">>),  \* 'add test'
    Str(<<"u","p","d","a","t","e"," ","t","e","s","t">>),  \* 'update test'
    Str(<<"f","i","x"," ","t","e","s","t">>),  \* 'fix test'
    Str(<<"t","e","s","t"," ","c","o","v","e","r","a","g","e">>),  \* 'test coverage'
    Str(<<"u","n","i","t"," ","t","e","s","t">>),  \* 'unit test'
    Str(<<"i","n","t","e","g","r","a","t","i","o","n"," ","t","e","s","t">>),  \* 'integration test'
    Str(<<"t","e","s","t","i","n","g">>),  \* 'testing'
    Str(<<"a","d","d"," ","t","e","s","t"," ","c","a","s","e">>)  \* 'add test case'
>>

\* AnalysisResults.tsx 226-241
ConfigurationPatterns == <<
    Str(<<"c","o","n","f","i","g">>),  \* 'config'
    Str(<<"c","o","n","f","i","g","u","r","a","t","i","o","n">>),  \* 'configuration'
    Str(<<"u","p","d","a","t","e"," ","c","o","n","f","i","g">>),  \* 'update config'
    Str(<<"c","h","a","n","g","e"," ","s","e","t","t","i","n","g">>),  \* 'change setting'
    Str(<<"e","n","v">>),  \* 'env'
    Str(<<"e","n","v","i","r","o","n","m","e","n","t">>),  \* 'environment'
    Str(<<"p","a","c","k","a","g","e",".","j","s","o","n">>),  \* 'package.json'
    Str(<<"w","e","b","p","a","c","k">>),  \* 'webpack'
    Str(<<"b","a","b","e","l">>),  \* 'babel'
    Str(<<"t","s","c","o","n","f","i","g">>),  \* 'tsconfig'
    Str(<<"e","s","l","i","n","t">>),  \* 'eslint'
    Str(<<"p","r","e","t","t","i","e","r">>),  \* 'prettier'
    Str(<<"s","e","t","u","p">>),  \* 'setup'
    Str(<<"c","o","n","f","i","g","u","r","a","t","i","o","n"," ","c","h","a","n","g","e">>)  \* 'configuration change'
>>

\* AnalysisResults.tsx 251-261
RefactoringPatterns == <<
    Str(<<"r","e","f","a","c","t","o","r">>),  \* 'refactor'
    Str(<<"c","l","e","a","n"," ","u","p">>),  \* 'clean up'
    Str(<<"c","l","e","a","n","u","p">>),  \* 'cleanup'
    Str(<<"c","o","d","e"," ","q","u","a","l","i","t","y">>),  \* 'code quality'
    Str(<<"i","m","p","r","o","v","e"," ","c","o","d","e">>),  \* 'improve code'
    Str(<<"c","o","d","e"," ","c","l","e","a","n","u","p">>),  \* 'code cleanup'
    Str(<<"o","p","t","i","m","i","z","e">>),  \* 'optimize'
    Str(<<"s","i","m","p","l","i","f","y">>),  \* 'simplify'
    Str(<<"r","e","s","t","r","u","c","t","u","r","e"," ","c","o","d","e">>)  \* 'restructure code'
>>

\* AnalysisResults.tsx 266-276
MaintenancePatterns == <<
    Str(<<"c","h","o","r","e">>),  \* 'chore'
    Str(<<"m","a","i","n","t","e","n","a","n","c","e">>),  \* 'maintenance'
    Str(<<"u","p","d","a","t","e"," ","d","e","p","e","n","d","e","n","c","y">>),  \* 'update dependency'
    Str(<<"b","u","m","p"," ","v","e","r","s","i","o","n">>),  \* 'bump version'
    Str(<<"d","e","p","e","n","d","e","n","c","y"," ","u","p","d","a","t","e">>),  \* 'dependency update'
    Str(<<"v","e","r","s","i","o","n"," ","b","u","m","p">>),  \* 'version bump'
    Str(<<"u","p","d","a","t","e"," ","d","e","p","s">>),  \* 'update deps'
    Str(<<"p","a","c","k","a","g","e"," ","u","p","d","a","t","e">>),  \* 'package update'
    Str(<<"u","p","d","a","t","e"," ","p","a","c","k","a","g","e","s">>)  \* 'update packages'
>>

(***************************************************************************)
(* SSM categories and commit types                                         *)
(***************************************************************************)
SSM_CATEGORIES ==
    [INTEGRATION   |-> "Integration",
     ROLLBACK      |-> "Rollback",
     ARCHITECTURAL |-> "Architectural",
     FEATURE       |-> "Feature",
     BUG_FIX       |-> "Bug Fix",
     REFACTORING   |-> "Refactoring",
     DOCUMENTATION |-> "Documentation",
     TEST          |-> "Test",
     CONFIGURATION |-> "Configuration",
     MAINTENANCE   |-> "Maintenance",
     TRIVIAL       |-> "Trivial"]

(***************************************************************************)
(* hasPattern                                                              *)
(***************************************************************************)
\* faulty variant: a pattern word must occur in a word of the message; a
\* word of the message that occurs in the pattern word no longer counts
PatternMatches_OneWay(pattern, msg, words) ==
    IF pattern.t # "str"
    THEN RegExpTest(pattern, msg)
    ELSE LET patternWords == split(toLowerCase(pattern.s))
         IN  \A i \in 1..Len(patternWords) :
                 \E j \in 1..Len(words) :
                     includes(words[j], patternWords[i])

\* one pattern of the list against the normalized message and its words
PatternMatches(pattern, msg, words) ==
    IF pattern.t # "str"
    THEN RegExpTest(pattern, msg)
    ELSE LET patternWords == split(toLowerCase(pattern.s))
         IN  \A i \in 1..Len(patternWords) :
                 \E j \in 1..Len(words) :
                     \/ includes(words[j], patternWords[i])
                     \/ includes(patternWords[i], words[j])

hasPattern(m, patterns) ==
    LET msg   == ReplaceSpecial(toLowerCase(m))
        words == split(msg)
    IN  \E k \in 1..Len(patterns) : PatternMatches(patterns[k], msg, words)

(***************************************************************************)
(* Fields of a commit record that may be missing: x || d                   *)
(***************************************************************************)
MessageOf(c) ==
    IF "message" \in DOMAIN c THEN c.message ELSE <<>>

NumberOf(c, f) == IF f \in DOMAIN c THEN c[f] ELSE 0

(***************************************************************************)
(* determineSSMCategory.  changeRatio is linesRemoved / linesAdded; the    *)
(* comparisons with 0.7 and 1.3 are made on 10 * linesRemoved against      *)
(* 7 * and 13 * linesAdded, which decides them exactly as the division in  *)
(* double precision does for line counts.                                  *)
(***************************************************************************)
\* faulty variant: the bounds 0.7 and 1.3 included
RatioInRange_Inclusive(added, removed) ==
    LET num == IF added > 0 THEN removed ELSE 0
        den == IF added > 0 THEN added ELSE 1
    IN  10 * num >= 7 * den /\ 10 * num <= 13 * den

RatioInRange(added, removed) ==
    LET num == IF added > 0 THEN removed ELSE 0
        den == IF added > 0 THEN added ELSE 1
    IN  10 * num > 7 * den /\ 10 * num < 13 * den

\* faulty variant: 100 changed lines already count as large
SizeFallback_Inclusive(totalChanges) ==
    IF totalChanges >= 100 THEN SSM_CATEGORIES.ARCHITECTURAL
    ELSE IF totalChanges > 20 THEN SSM_CATEGORIES.TRIVIAL
    ELSE SSM_CATEGORIES.TRIVIAL

SizeFallback(totalChanges) ==
    IF totalChanges > 100 THEN SSM_CATEGORIES.ARCHITECTURAL
    ELSE IF totalChanges > 20 THEN SSM_CATEGORIES.TRIVIAL
    ELSE SSM_CATEGORIES.TRIVIAL

\* faulty variant: the Bug Fix rule is tried first, before Integration
determineSSMCategory_BugFixFirst(c) ==
    LET m            == MessageOf(c)
        added        == NumberOf(c, "linesAdded")
        removed      == NumberOf(c, "linesRemoved")
        totalChanges == added + removed
    IN  IF hasPattern(m, BugFixPatterns) THEN SSM_CATEGORIES.BUG_FIX
        ELSE IF hasPattern(m, IntegrationPatterns) THEN SSM_CATEGORIES.INTEGRATION
        ELSE IF hasPattern(m, RollbackPatterns) THEN SSM_CATEGORIES.ROLLBACK
        ELSE IF hasPattern(m, ArchitecturalPatterns) THEN SSM_CATEGORIES.ARCHITECTURAL
        ELSE IF hasPattern(m, FeaturePatterns) THEN SSM_CATEGORIES.FEATURE
        ELSE IF hasPattern(m, DocumentationPatterns) THEN SSM_CATEGORIES.DOCUMENTATION
        ELSE IF hasPattern(m, TestPatterns) THEN SSM_CATEGORIES.TEST
        ELSE IF hasPattern(m, ConfigurationPatterns) THEN SSM_CATEGORIES.CONFIGURATION
        ELSE IF RatioInRange(added, removed) \/ hasPattern(m, RefactoringPatterns)
             THEN SSM_CATEGORIES.REFACTORING
        ELSE IF hasPattern(m, MaintenancePatterns) THEN SSM_CATEGORIES.MAINTENANCE
        ELSE SizeFallback(totalChanges)

\* faulty variant: the Maintenance vocabulary is tried before the ratio
determineSSMCategory_MaintenanceFirst(c) ==
    LET m            == MessageOf(c)
        added        == NumberOf(c, "linesAdded")
        removed      == NumberOf(c, "linesRemoved")
        totalChanges == added + removed
    IN  IF hasPattern(m, IntegrationPatterns) THEN SSM_CATEGORIES.INTEGRATION
        ELSE IF hasPattern(m, RollbackPatterns) THEN SSM_CATEGORIES.ROLLBACK
        ELSE IF hasPattern(m, ArchitecturalPatterns) THEN SSM_CATEGORIES.ARCHITECTURAL
        ELSE IF hasPattern(m, FeaturePatterns) THEN SSM_CATEGORIES.FEATURE
        ELSE IF hasPattern(m, BugFixPatterns) THEN SSM_CATEGORIES.BUG_FIX
        ELSE IF hasPattern(m, DocumentationPatterns) THEN SSM_CATEGORIES.DOCUMENTATION
        ELSE IF hasPattern(m, TestPatterns) THEN SSM_CATEGORIES.TEST
        ELSE IF hasPattern(m, ConfigurationPatterns) THEN SSM_CATEGORIES.CONFIGURATION
        ELSE IF hasPattern(m, MaintenancePatterns) THEN SSM_CATEGORIES.MAINTENANCE
        ELSE IF RatioInRange(added, removed) \/ hasPattern(m, RefactoringPatterns)
             THEN SSM_CATEGORIES.REFACTORING
        ELSE SizeFallback(totalChanges)

determineSSMCategory(c) ==
    LET m            == MessageOf(c)
        added        == NumberOf(c, "linesAdded")
        removed      == NumberOf(c, "linesRemoved")
        totalChanges == added + removed
    IN  IF hasPattern(m, IntegrationPatterns) THEN SSM_CATEGORIES.INTEGRATION
        ELSE IF hasPattern(m, RollbackPatterns) THEN SSM_CATEGORIES.ROLLBACK
        ELSE IF hasPattern(m, ArchitecturalPatterns) THEN SSM_CATEGORIES.ARCHITECTURAL
        ELSE IF hasPattern(m, FeaturePatterns) THEN SSM_CATEGORIES.FEATURE
        ELSE IF hasPattern(m, BugFixPatterns) THEN SSM_CATEGORIES.BUG_FIX
        ELSE IF hasPattern(m, DocumentationPatterns) THEN SSM_CATEGORIES.DOCUMENTATION
        ELSE IF hasPattern(m, TestPatterns) THEN SSM_CATEGORIES.TEST
        ELSE IF hasPattern(m, ConfigurationPatterns) THEN SSM_CATEGORIES.CONFIGURATION
        ELSE IF RatioInRange(added, removed) \/ hasPattern(m, RefactoringPatterns)
             THEN SSM_CATEGORIES.REFACTORING
        ELSE IF hasPattern(m, MaintenancePatterns) THEN SSM_CATEGORIES.MAINTENANCE
        ELSE SizeFallback(totalChanges)

(***************************************************************************)
(* The helper functions of the results view (AnalysisResults.tsx)          *)
(***************************************************************************)
KwFix      == <<"f","i","x">>
KwBug      == <<"b","u","g">>
KwFeat     == <<"f","e","a","t">>
KwAdd      == <<"a","d","d">>
KwRefactor == <<"r","e","f","a","c","t","o","r">>
KwDoc      == <<"d","o","c">>
KwTest     == <<"t","e","s","t">>
KwChore    == <<"c","h","o","r","e">>

\* faulty variant: the final return is missing
getCommitType_NoFallback(m) ==
    LET messageLower == toLowerCase(m)
    IN  IF includes(messageLower, KwFix) \/ includes(messageLower, KwBug) THEN "Bug Fix"
        ELSE IF includes(messageLower, KwFeat) \/ includes(messageLower, KwAdd) THEN "Feature"
        ELSE IF includes(messageLower, KwRefactor) THEN "Refactor"
        ELSE IF includes(messageLower, KwDoc) THEN "Documentation"
        ELSE IF includes(messageLower, KwTest) THEN "Test"
        ELSE IF includes(messageLower, KwChore) THEN "Chore"
        ELSE "undefined"

\* faulty variant: "test" is looked for before "feat" and "add"
getCommitType_TestFirst(m) ==
    LET messageLower == toLowerCase(m)
    IN  IF includes(messageLower, KwFix) \/ includes(messageLower, KwBug) THEN "Bug Fix"
        ELSE IF includes(messageLower, KwTest) THEN "Test"
        ELSE IF includes(messageLower, KwFeat) \/ includes(messageLower, KwAdd) THEN "Feature"
        ELSE IF includes(messageLower, KwRefactor) THEN "Refactor"
        ELSE IF includes(messageLower, KwDoc) THEN "Documentation"
        ELSE IF includes(messageLower, KwChore) THEN "Chore"
        ELSE "Other"

getCommitType(m) ==
    LET messageLower == toLowerCase(m)
    IN  IF includes(messageLower, KwFix) \/ includes(messageLower, KwBug) THEN "Bug Fix"
        ELSE IF includes(messageLower, KwFeat) \/ includes(messageLower, KwAdd) THEN "Feature"
        ELSE IF includes(messageLower, KwRefactor) THEN "Refactor"
        ELSE IF includes(messageLower, KwDoc) THEN "Documentation"
        ELSE IF includes(messageLower, KwTest) THEN "Test"
        ELSE IF includes(messageLower, KwChore) THEN "Chore"
        ELSE "Other"

\* faulty variant: <= in place of <
getComplexityLevel_Inclusive(totalChanges) ==
    IF totalChanges <= 10 THEN "Simple"
    ELSE IF totalChanges <= 50 THEN "Moderate"
    ELSE IF totalChanges <= 200 THEN "Complex"
    ELSE "Very Complex"

getComplexityLevel(totalChanges) ==
    IF totalChanges < 10 THEN "Simple"
    ELSE IF totalChanges < 50 THEN "Moderate"
    ELSE IF totalChanges < 200 THEN "Complex"
    ELSE "Very Complex"

\* faulty variant: removed / added without the test added > 0, which is
\* Infinity, and above 3, when lines were only removed
getQualityAssessment_Unguarded(added, removed, files) ==
    LET ratioOver3 == IF added > 0 THEN removed > 3 * added ELSE removed > 0
    IN  IF files = 0 THEN "N/A"
        ELSE IF files > 10 THEN "Needs Review"
        ELSE IF ratioOver3 THEN "Questionable"
        ELSE "Good"

\* changeRatio > 3 with changeRatio = added > 0 ? removed / added : 0
getQualityAssessment(added, removed, files) ==
    LET ratioOver3 == added > 0 /\ removed > 3 * added
    IN  IF files = 0 THEN "N/A"
        ELSE IF files > 10 THEN "Needs Review"
        ELSE IF ratioOver3 THEN "Questionable"
        ELSE "Good"

\* faulty variant: >= in place of >
getRiskLevel_Inclusive(totalChanges, files) ==
    IF files = 0 THEN "None"
    ELSE IF totalChanges >= 100 \/ files >= 5 THEN "High"
    ELSE IF totalChanges >= 50 \/ files >= 2 THEN "Medium"
    ELSE "Low"

\* faulty variant: a commit without files is not told apart
getRiskLevel_NoNone(totalChanges, files) ==
    IF totalChanges > 100 \/ files > 5 THEN "High"
    ELSE IF totalChanges > 50 \/ files > 2 THEN "Medium"
    ELSE "Low"

getRiskLevel(totalChanges, files) ==
    IF files = 0 THEN "None"
    ELSE IF totalChanges > 100 \/ files > 5 THEN "High"
    ELSE IF totalChanges > 50 \/ files > 2 THEN "Medium"
    ELSE "Low"

(***************************************************************************)
(* The same helpers as CommitAnalysisModal.tsx defines them                *)
(***************************************************************************)
Modal_getCommitType(m) ==
    LET messageLower == toLowerCase(m)
    IN  IF includes(messageLower, KwFix) \/ includes(messageLower, KwBug) THEN "Bug Fix"
        ELSE IF includes(messageLower, KwFeat) \/ includes(messageLower, KwAdd) THEN "Feature"
        ELSE IF includes(messageLower, KwRefactor) THEN "Refactor"
        ELSE IF includes(messageLower, KwDoc) THEN "Documentation"
        ELSE IF includes(messageLower, KwTest) THEN "Test"
        ELSE IF includes(messageLower, KwChore) THEN "Chore"
        ELSE "Other"

Modal_getComplexityLevel(totalChanges) ==
    IF totalChanges < 10 THEN "Simple"
    ELSE IF totalChanges < 50 THEN "Moderate"
    ELSE IF totalChanges < 200 THEN "Complex"
    ELSE "Very Complex"

Modal_getQualityAssessment(added, removed, files) ==
    LET ratioOver3 == added > 0 /\ removed > 3 * added
    IN  IF files = 0 THEN "N/A"
        ELSE IF files > 10 THEN "Needs Review"
        ELSE IF ratioOver3 THEN "Questionable"
        ELSE "Good"

Modal_getRiskLevel(totalChanges, files) ==
    IF files = 0 THEN "None"
    ELSE IF totalChanges > 100 \/ files > 5 THEN "High"
    ELSE IF totalChanges > 50 \/ files > 2 THEN "Medium"
    ELSE "Low"

(***************************************************************************)
(* The commits the functions are applied to                                *)
(***************************************************************************)
MaxWords == 2    \* words in a composed message
MaxDense == 12   \* line counts 0..MaxDense are all tried by the scorers
MaxFiles == 11   \* file counts 0..MaxFiles are all tried by the scorers

Words == {
    <<"f","i","x">>,
    <<"m","e","r","g","e">>,
    <<"f","e","a","t",":">>,
    <<"A","d","d">>,
    <<"t","e","s","t">>,
    <<"r","e","f","a","c","t","o","r">>,
    <<"p","o","l","i","s","h">>,
    <<"r","e","a","d","m","e",".">>
}

RECURSIVE JoinWords(_)
JoinWords(ws) ==
    IF Len(ws) = 0 THEN <<>>
    ELSE IF Len(ws) = 1 THEN ws[1]
    ELSE ws[1] \o <<" ">> \o JoinWords(Tail(ws))

\* every message of at most MaxWords words, single spaces between them
ComposedMessages ==
    {JoinWords(ws) : ws \in UNION {[1..n -> Words] : n \in 0..MaxWords}}

MsgWip        == <<"w","i","p">>
MsgPolishUi   == <<"p","o","l","i","s","h"," ","u","i">>
MsgChore      == <<"c","h","o","r","e">>
MsgFeatPolish == <<"f","e","a","t",":"," ","p","o","l","i","s","h"," ","u","i">>
MsgFeatScope  == <<"f","e","a","t","(","u","i",")",":"," ","p","o","l","i","s","h">>
MsgFixPolish  == <<"f","i","x",":"," ","p","o","l","i","s","h">>
MsgDocsPolish == <<"d","o","c","s",":"," ","p","o","l","i","s","h">>
MsgTestPolish == <<"t","e","s","t",":"," ","p","o","l","i","s","h">>
MsgTestsPolish == <<"t","e","s","t","s",":"," ","p","o","l","i","s","h">>
MsgFixMergeConflict ==
    <<"f","i","x"," ","m","e","r","g","e"," ","c","o","n","f","l","i","c","t">>
MsgFixBugMerge == <<"f","i","x"," ","b","u","g"," ","m","e","r","g","e">>

WrittenMessages == {
    MsgWip, MsgPolishUi, MsgChore,
    MsgFeatPolish, MsgFeatScope, MsgFixPolish, MsgDocsPolish,
    MsgTestPolish, MsgTestsPolish,
    MsgFixMergeConflict, MsgFixBugMerge,
    <<"f","i","x","(","a","p","i",")",":"," ","h","a","n","d","l","e"," ",
      "n","u","l","l"," ","t","o","k","e","n">>,       \* "fix(api): handle null token"
    <<"M","e","r","g","e"," ","p","u","l","l"," ","r","e","q","u","e","s","t",
      " ","#","4","2">>,                               \* "Merge pull request #42"
    <<"u","p","d","a","t","e"," ","r","e","a","d","m","e">>,       \* "update readme"
    <<"a","d","d"," ","n","e","w"," ","f","e","a","t","u","r","e">>, \* "add new feature"
    <<"R","e","v","e","r","t"," ","m","e","r","g","e">>,           \* "Revert merge"
    <<"b","u","m","p"," ","v","e","r","s","i","o","n">>,           \* "bump version"
    <<"p","r","e","f","i","x">>,                                   \* "prefix"
    <<"U","p","d","a","t","e"," ","U","I">>,                       \* "Update UI"
    <<"u","n","i","t"," ","t","e","s","t","s">>,                   \* "unit tests"
    <<"c","l","e","a","n","u","p"," ","c","o","d","e">>,           \* "cleanup code"
    <<"n","e","w"," ","s","e","t","u","p">>,                       \* "new setup"
    <<"r","e","d","e","s","i","g","n">>,                           \* "redesign"
    <<"u","n","d","o">>,                                           \* "undo"
    <<"d","o","c","s",":"," ","A","d","d">>,                       \* "docs: Add"
    <<"c","h","o","r","e",":"," ","r","e","f","a","c","t","o","r"," ",
      "d","o","c","s">>                                \* "chore: refactor docs"
}

Messages == ComposedMessages \cup WrittenMessages

Commit(m, added, removed, files) ==
    [message |-> m, linesAdded |-> added, linesRemoved |-> removed,
     filesChanged |-> files]

\* every message, with a few sizes
TextCommits ==
    {Commit(m, p[1], p[2], 2) :
        m \in Messages, p \in {<<0, 0>>, <<100, 90>>}}

\* a few messages, with the sizes around the ratio and size thresholds
SizeCommits ==
    {Commit(m, added, removed, f) :
        m \in {MsgWip, MsgPolishUi, MsgChore},
        added \in {0, 10, 100},
        removed \in {0, 1, 7, 8, 12, 13, 21, 40, 90, 101, 130},
        f \in {6}}

\* line counts the scorers are tried on: all the small ones and those
\* around the thresholds
LineValues ==
    (0..MaxDense) \cup {20, 30, 37, 38, 39, 40, 41, 49, 50, 51, 90, 99, 100,
                        101, 150, 199, 200, 201}

ScoreCommits ==
    {Commit(MsgWip, added, removed, f) :
        added \in LineValues, removed \in LineValues, f \in 0..MaxFiles}

PatternLists == <<
    IntegrationPatterns, RollbackPatterns, ArchitecturalPatterns,
    FeaturePatterns, BugFixPatterns, DocumentationPatterns, TestPatterns,
    ConfigurationPatterns, RefactoringPatterns, MaintenancePatterns>>

(***************************************************************************)
(* State machine: a commit is given; each action is one call of one of     *)
(* the functions on it, and Return hands the result to the caller.         *)
(***************************************************************************)
Idle == op = "" /\ arg = 0 /\ ret = ""

\* CommitAnalysisModal before it is opened: isLoading starts true, error
\* and commit start null ("" stands for null); no request has been sent
ModalClosed ==
    [isOpen |-> FALSE, commitSha |-> "", isLoading |-> TRUE, error |-> "",
     commit |-> "", requests |-> <<>>]

\* MainTabs as useState leaves it: no insights (0 stands for null), not
\* analyzing, the analysis tab active
TabsAtMount(plan) ==
    [userPlan |-> plan, activeTab |-> "analysis", insights |-> 0,
     isAnalyzing |-> FALSE]

\* ReportAnalysis as useState leaves it
ReportAtMount ==
    [branches |-> <<>>, selectedBranches |-> <<>>,
     isLoadingBranches |-> FALSE, error |-> "", fetching |-> FALSE]

\* the components that take no step
ModalAtRest  == modal = ModalClosed
TabsAtRest   == tabs = TabsAtMount("Premium")
ReportAtRest == report = ReportAtMount

\* the list of the author's commits is sorted newest first, the other
\* components rest and no effect is scheduled
ComponentsAtRest ==
    /\ sortOrder = "newest"
    /\ ModalAtRest /\ TabsAtRest /\ ReportAtRest /\ pendingEffects = {}

\* no analysis is shown: insights is null, no per-commit analysis is loaded
NoViews ==
    /\ insights = <<>> /\ commitAnalysisData = <<>>
    /\ selectedAuthor = ""
    /\ ComponentsAtRest

Init == commit \in TextCommits \cup SizeCommits /\ Idle /\ NoViews

InitScores == commit \in ScoreCommits /\ Idle /\ NoViews

TotalChanges == commit.linesAdded + commit.linesRemoved

GetCommitType ==
    /\ op = ""
    /\ op' = "getCommitType"
    /\ arg' = 0
    /\ ret' = getCommitType(commit.message)
    /\ UNCHANGED <<commit, insights, commitAnalysisData, components>>

GetComplexityLevel ==
    /\ op = ""
    /\ op' = "getComplexityLevel"
    /\ arg' = 0
    /\ ret' = getComplexityLevel(TotalChanges)
    /\ UNCHANGED <<commit, insights, commitAnalysisData, components>>

GetQualityAssessment ==
    /\ op = ""
    /\ op' = "getQualityAssessment"
    /\ arg' = 0
    /\ ret' = getQualityAssessment(commit.linesAdded, commit.linesRemoved,
                                   commit.filesChanged)
    /\ UNCHANGED <<commit, insights, commitAnalysisData, components>>

GetRiskLevel ==
    /\ op = ""
    /\ op' = "getRiskLevel"
    /\ arg' = 0
    /\ ret' = getRiskLevel(TotalChanges, commit.filesChanged)
    /\ UNCHANGED <<commit, insights, commitAnalysisData, components>>

\* one of the calls determineSSMCategory makes: hasPattern(message, list k)
HasPattern ==
    /\ op = ""
    /\ \E k \in 1..Len(PatternLists) :
          /\ arg' = k
          /\ ret' = hasPattern(MessageOf(commit), PatternLists[k])
    /\ op' = "hasPattern"
    /\ UNCHANGED <<commit, insights, commitAnalysisData, components>>

DetermineSSMCategory ==
    /\ op = ""
    /\ op' = "determineSSMCategory"
    /\ arg' = 0
    /\ ret' = determineSSMCategory(commit)
    /\ UNCHANGED <<commit, insights, commitAnalysisData, components>>

Modal_GetCommitType ==
    /\ op = ""
    /\ op' = "Modal.getCommitType"
    /\ arg' = 0
    /\ ret' = Modal_getCommitType(commit.message)
    /\ UNCHANGED <<commit, insights, commitAnalysisData, components>>

Modal_GetComplexityLevel ==
    /\ op = ""
    /\ op' = "Modal.getComplexityLevel"
    /\ arg' = 0
    /\ ret' = Modal_getComplexityLevel(TotalChanges)
    /\ UNCHANGED <<commit, insights, commitAnalysisData, components>>

Modal_GetQualityAssessment ==
    /\ op = ""
    /\ op' = "Modal.getQualityAssessment"
    /\ arg' = 0
    /\ ret' = Modal_getQualityAssessment(commit.linesAdded, commit.linesRemoved,
                                         commit.filesChanged)
    /\ UNCHANGED <<commit, insights, commitAnalysisData, components>>

Modal_GetRiskLevel ==
    /\ op = ""
    /\ op' = "Modal.getRiskLevel"
    /\ arg' = 0
    /\ ret' = Modal_getRiskLevel(TotalChanges, commit.filesChanged)
    /\ UNCHANGED <<commit, insights, commitAnalysisData, components>>

\* the caller takes the result; another call can follow
Return ==
    /\ op # ""
    /\ op' = ""
    /\ arg' = 0
    /\ ret' = ""
    /\ UNCHANGED <<commit, insights, commitAnalysisData, components>>

NextScores ==
    \/ GetComplexityLevel
    \/ GetQualityAssessment
    \/ GetRiskLevel
    \/ Modal_GetComplexityLevel
    \/ Modal_GetQualityAssessment
    \/ Modal_GetRiskLevel
    \/ Return

Next ==
    \/ GetCommitType
    \/ HasPattern
    \/ DetermineSSMCategory
    \/ Modal_GetCommitType
    \/ NextScores

Spec == Init /\ [][Next]_vars

SpecScores == InitScores /\ [][NextScores]_vars

(***************************************************************************)
(* The views of AnalysisResults.  A commit as the API sends it is a record *)
(* with the fields message, additions, deletions and files (a list of file *)
(* entries); a field the API left out is missing from the record.          *)
(***************************************************************************)
\* faulty variant: a commit without a files list counts as one file
FilesLength_One(c) ==
    IF "files" \in DOMAIN c THEN Len(c.files) ELSE 1

\* commit.files?.length || 0
FilesLength(c) ==
    IF "files" \in DOMAIN c THEN Len(c.files) ELSE 0

\* what message.toLowerCase() throws when message is undefined
TypeError == "TypeError"

\* how a call that can throw ends: with a value returned or an error
\* thrown
Returned(v) == [type |-> "return", value |-> v]
Thrown(e)   == [type |-> "throw", value |-> e]

\* getCommitType(commit.message), the message handed over as it is
CommitTypeOf(c) ==
    IF "message" \in DOMAIN c THEN getCommitType(c.message) ELSE TypeError

\* the object categorizeCommits hands to determineSSMCategory: a property
\* whose value is undefined is a missing field
CategorizeArgument(c) ==
    LET fields == {"filesChanged"}
            \cup (IF "message" \in DOMAIN c THEN {"message"} ELSE {})
            \cup (IF "additions" \in DOMAIN c THEN {"linesAdded"} ELSE {})
            \cup (IF "deletions" \in DOMAIN c THEN {"linesRemoved"} ELSE {})
    IN  [f \in fields |->
            CASE f = "message"      -> c.message
              [] f = "linesAdded"   -> c.additions
              [] f = "linesRemoved" -> c.deletions
              [] f = "filesChanged" -> FilesLength(c)]

\* the object the author view hands to determineSSMCategory
AuthorViewArgument(c) ==
    [message      |-> MessageOf(c),
     linesAdded   |-> NumberOf(c, "additions"),
     linesRemoved |-> NumberOf(c, "deletions"),
     filesChanged |-> FilesLength(c)]

\* the commit types in the order Array.prototype.sort() puts them: by the
\* code units of their names
TypeOrder ==
    <<"Bug Fix", "Chore", "Documentation", "Feature", "Other", "Refactor",
      "Test">>

\* Array.from(types).sort()
SortedTypes(types) == SelectSeq(TypeOrder, LAMBDA t : t \in types)

\* faulty variant: equal counts change places
InsertByCount_Unstable(sorted, x) ==
    LET k == Cardinality({i \in 1..Len(sorted) : sorted[i].count > x.count})
    IN  SubSeq(sorted, 1, k) \o <<x>> \o SubSeq(sorted, k + 1, Len(sorted))

\* x put into a list sorted by (a, b) => b.count - a.count, behind the
\* entries that do not sort after it
InsertByCount(sorted, x) ==
    LET k == Cardinality({i \in 1..Len(sorted) : sorted[i].count >= x.count})
    IN  SubSeq(sorted, 1, k) \o <<x>> \o SubSeq(sorted, k + 1, Len(sorted))

\* entries.sort((a, b) => b.count - a.count): the sort is stable
RECURSIVE SortByCount(_, _)
SortByCount(entries, n) ==
    IF n = 0 THEN <<>>
    ELSE InsertByCount(SortByCount(entries, n - 1), entries[n])

\* faulty variant: a commit of a category already seen is not counted
CountCommit_CountOnce(list, n, prev) ==
    LET c           == list[n]
        ssmCategory == determineSSMCategory(CategorizeArgument(c))
        commitType  == CommitTypeOf(c)
        has         == \E i \in 1..Len(prev) : prev[i].category = ssmCategory
    IN  IF has
        THEN [i \in 1..Len(prev) |->
                 IF prev[i].category = ssmCategory
                 THEN [prev[i] EXCEPT !.types = @ \cup {commitType}]
                 ELSE prev[i]]
        ELSE Append(prev, [category |-> ssmCategory, count |-> 1,
                           types |-> {commitType}])

\* faulty variant: the types of a category already seen are not collected
CountCommit_FirstType(list, n, prev) ==
    LET c           == list[n]
        ssmCategory == determineSSMCategory(CategorizeArgument(c))
        commitType  == CommitTypeOf(c)
        has         == \E i \in 1..Len(prev) : prev[i].category = ssmCategory
    IN  IF has
        THEN [i \in 1..Len(prev) |->
                 IF prev[i].category = ssmCategory
                 THEN [prev[i] EXCEPT !.count = @ + 1]
                 ELSE prev[i]]
        ELSE Append(prev, [category |-> ssmCategory, count |-> 1,
                           types |-> {commitType}])

\* one turn of the forEach of categorizeCommits: commit n of the list is
\* counted in the Map prev, whose entries are kept in insertion order
CountCommit(list, n, prev) ==
    LET c           == list[n]
        ssmCategory == determineSSMCategory(CategorizeArgument(c))
        commitType  == CommitTypeOf(c)
        has         == \E i \in 1..Len(prev) : prev[i].category = ssmCategory
        entries     == IF has THEN prev
                       ELSE Append(prev, [category |-> ssmCategory,
                                          count |-> 0, types |-> {}])
    IN  [i \in 1..Len(entries) |->
            IF entries[i].category = ssmCategory
            THEN [entries[i] EXCEPT !.count = @ + 1,
                                    !.types = @ \cup {commitType}]
            ELSE entries[i]]

\* the Map after the first n commits
RECURSIVE Categories(_, _)
Categories(list, n) ==
    IF n = 0 THEN <<>> ELSE CountCommit(list, n, Categories(list, n - 1))

\* categorizeCommits(commits).  getCommitType throws at a commit without a
\* message, and forEach and categorizeCommits with it.
categorizeCommits(list) ==
    IF \E n \in 1..Len(list) : CommitTypeOf(list[n]) = TypeError
    THEN Thrown(TypeError)
    ELSE LET categories == Categories(list, Len(list))
             mapped     == [i \in 1..Len(categories) |->
                               [category |-> categories[i].category,
                                count    |-> categories[i].count,
                                types    |-> SortedTypes(categories[i].types)]]
         IN  Returned(SortByCount(mapped, Len(mapped)))

\* one turn of the forEach that fills typeCounts
CountType(list, n, prev) ==
    LET type    == CommitTypeOf(list[n])
        has     == \E i \in 1..Len(prev) : prev[i].type = type
        entries == IF has THEN prev
                   ELSE Append(prev, [type |-> type, count |-> 0])
    IN  [i \in 1..Len(entries) |->
            IF entries[i].type = type
            THEN [entries[i] EXCEPT !.count = @ + 1]
            ELSE entries[i]]

RECURSIVE TypeCounts(_, _)
TypeCounts(list, n) ==
    IF n = 0 THEN <<>> ELSE CountType(list, n, TypeCounts(list, n - 1))

\* sortedTypes of the By Commit Type card: the entries of typeCounts,
\* sorted by count
sortedTypes(list) ==
    IF \E n \in 1..Len(list) : CommitTypeOf(list[n]) = TypeError
    THEN Thrown(TypeError)
    ELSE LET entries == TypeCounts(list, Len(list))
         IN  Returned(SortByCount(entries, Len(entries)))

NoCommitMessage ==
    <<"N","o"," ","c","o","m","m","i","t"," ","m","e","s","s","a","g","e">>

NoRecentCommits ==
    <<"N","o"," ","r","e","c","e","n","t"," ","c","o","m","m","i","t","s"," ",
      "f","o","u","n","d">>

\* getCommitData(): the data of the latest-commit card.  The commit of the
\* API is handed to determineSSMCategory as it is.
getCommitData(ins) ==
    IF "latest_commit" \notin DOMAIN ins
    THEN [message      |-> NoRecentCommits,
          linesAdded   |-> 0,
          linesRemoved |-> 0,
          filesChanged |-> 0,
          ssmCategory  |-> "None"]
    ELSE LET c == ins.latest_commit
         IN  [message      |-> IF MessageOf(c) # <<>> THEN c.message
                               ELSE NoCommitMessage,
              linesAdded   |-> NumberOf(c, "additions"),
              linesRemoved |-> NumberOf(c, "deletions"),
              filesChanged |-> FilesLength(c),
              ssmCategory  |-> determineSSMCategory(c)]

\* the badges of one commit in the author's commit list
authorCommitBadges(c) ==
    LET additions == NumberOf(c, "additions")
        deletions == NumberOf(c, "deletions")
    IN  [type       |-> getCommitType(MessageOf(c)),
         complexity |-> getComplexityLevel(additions + deletions),
         quality    |-> getQualityAssessment(additions, deletions, FilesLength(c)),
         risk       |-> getRiskLevel(additions + deletions, FilesLength(c)),
         ssm        |-> determineSSMCategory(AuthorViewArgument(c))]

(***************************************************************************)
(* CommitCard.  files_changed is a list of file names.  Where the card     *)
(* hands the list itself to getRiskLevel, the comparisons convert it: to   *)
(* the string of its names joined by commas, and that string to a number.  *)
(***************************************************************************)
DigitSeq == <<"0","1","2","3","4","5","6","7","8","9">>

RECURSIVE DecimalValue(_, _)
DecimalValue(s, n) ==
    IF n = 0 THEN 0
    ELSE 10 * DecimalValue(s, n - 1)
         + (CHOOSE d \in 0..9 : DigitSeq[d + 1] = s[n])

\* Number(s) for a file name s: the number s is the decimal numeral of;
\* no number (NaN) for a name with any other character.  The result is the
\* set of that number, empty for NaN.
StringToNumber(s) ==
    IF \A i \in 1..Len(s) : s[i] \in Digits
    THEN {DecimalValue(s, Len(s))}
    ELSE {}

\* Number(files): "" and so 0 for the empty list, the number of the name
\* for a single name, NaN when names are joined by commas
ArrayToNumber(files) ==
    IF Len(files) = 0 THEN {0}
    ELSE IF Len(files) = 1 THEN StringToNumber(files[1])
    ELSE {}

\* getRiskLevel(totalChanges, files) with a list for filesChanged: a list
\* is never === 0, and a comparison with NaN is false
getRiskLevelOfArray(totalChanges, files) ==
    LET above(k) == \E x \in ArrayToNumber(files) : x > k
    IN  IF totalChanges > 100 \/ above(5) THEN "High"
        ELSE IF totalChanges > 50 \/ above(2) THEN "Medium"
        ELSE "Low"

\* getQualityAssessment(added, removed, undefined): undefined is not === 0
\* and undefined > 10 is false
getQualityAssessmentOfUndefined(linesAdded, linesRemoved) ==
    IF linesAdded > 0 /\ linesRemoved > 3 * linesAdded THEN "Questionable"
    ELSE "Good"

\* the badges CommitCard renders
CommitCard(c) ==
    LET total == c.lines_added + c.lines_removed
        level == getRiskLevel(total, Len(c.files_changed))
    IN  [riskVariant |-> IF level = "High" THEN "destructive"
                         ELSE IF level = "Medium" THEN "secondary"
                         ELSE "outline",
         riskText    |-> getRiskLevelOfArray(total, c.files_changed),
         type        |-> getCommitType(c.commit_message),
         complexity  |-> getComplexityLevel(total),
         quality     |-> getQualityAssessmentOfUndefined(c.lines_added,
                                                         c.lines_removed)]

(***************************************************************************)
(* The commits the views are tried on                                      *)
(***************************************************************************)
MaxCommits == 3   \* commits in the selected author's list
MaxCards == 1     \* commits in the per-commit analysis

MsgFixApi ==
    <<"f","i","x","(","a","p","i",")",":"," ","h","a","n","d","l","e"," ",
      "n","u","l","l"," ","t","o","k","e","n">>

MsgMergePullRequest ==
    <<"M","e","r","g","e"," ","p","u","l","l"," ","r","e","q","u","e","s","t",
      " ","#","4","2">>

MsgAddNewFeature == <<"a","d","d"," ","n","e","w"," ","f","e","a","t","u","r","e">>
MsgFixBug        == <<"f","i","x"," ","b","u","g">>
MsgTestsX        == <<"t","e","s","t","s",":"," ","x">>

FileApi    == <<"s","r","c","/","a","p","i",".","t","s">>
FileReadme == <<"R","E","A","D","M","E",".","m","d">>
FileSeven  == <<"7">>

ApiCommit(m, additions, deletions, files) ==
    [message |-> m, additions |-> additions, deletions |-> deletions,
     files |-> files]

FixApiCommit == ApiCommit(MsgFixApi, 12, 3, <<FileApi, FileReadme>>)
MergeCommit  == ApiCommit(MsgMergePullRequest, 0, 0, <<>>)

\* the commits the lists are made of: well-formed ones, and one each
\* without message, without line counts, without files
ListCommits == {
    ApiCommit(MsgWip, 100, 90, <<FileApi>>),
    ApiCommit(MsgAddNewFeature, 1, 1, <<FileApi>>),
    ApiCommit(MsgTestsX, 1, 0, <<FileApi>>),
    [additions |-> 5, deletions |-> 0, files |-> <<FileApi>>],
    [message |-> MsgFixBug, files |-> <<FileApi>>],
    [message |-> MsgWip, additions |-> 200, deletions |-> 0]
}

CommitLists == UNION {[1..n -> ListCommits] : n \in 0..MaxCommits}

\* the sizes single commits are tried with
SizePairs == {0, 10, 100} \X {0, 7, 8, 13, 90, 101}

\* the commits a view is tried on one at a time: those of the lists, the
\* two written out above, and a short and an empty message with all the
\* sizes, also without message and without files
ApiCommits ==
    ListCommits
    \cup {FixApiCommit, MergeCommit}
    \cup {ApiCommit(m, p[1], p[2], f) :
              m \in {<<>>, MsgWip}, p \in SizePairs,
              f \in {<<>>, <<FileApi, FileReadme, FileSeven>>}}
    \cup {[additions |-> p[1], deletions |-> p[2], files |-> <<FileApi>>] :
              p \in SizePairs}
    \cup {[message |-> MsgWip, additions |-> p[1], deletions |-> p[2]] :
              p \in SizePairs}

\* the analysis of a repository whose selected author has the commits of
\* list; the latest commit is the first of them
InsightsOf(list) ==
    IF Len(list) = 0 THEN [commits |-> list]
    ELSE [latest_commit |-> list[1], commits |-> list]

DetailedCommit(m, added, removed, files) ==
    [commit_message |-> m, lines_added |-> added, lines_removed |-> removed,
     files_changed |-> files]

FileLists == {
    <<>>,
    <<FileApi>>,
    <<FileSeven>>,
    <<FileApi, FileReadme>>,
    <<FileApi, FileReadme, FileSeven>>,
    <<FileApi, FileReadme, FileSeven, FileApi, FileReadme, FileSeven>>
}

DetailedCommits ==
    {DetailedCommit(MsgFixBug, added, removed, files) :
        added \in {0, 5, 30, 51, 60, 101, 120},
        removed \in {0, 1},
        files \in FileLists}

DetailedLists == UNION {[1..n -> DetailedCommits] : n \in 1..MaxCards}

(***************************************************************************)
(* The views as a state machine: each action is one computation of a view  *)
(* on the analysis shown.                                                  *)
(***************************************************************************)
\* the author whose commits the views are computed on
TheAuthor == "alice"

\* the results view shows TheAuthor's commits; the other components rest
AuthorShown == selectedAuthor = TheAuthor /\ ComponentsAtRest

InitViews ==
    /\ \E list \in CommitLists : insights = InsightsOf(list)
    /\ commitAnalysisData = <<>>
    /\ commit = <<>>
    /\ Idle
    /\ AuthorShown

\* a single commit is shown
InitCommit ==
    /\ \E c \in ApiCommits : insights = InsightsOf(<<c>>)
    /\ commitAnalysisData = <<>>
    /\ commit = <<>>
    /\ Idle
    /\ AuthorShown

InitCard ==
    /\ insights = <<>>
    /\ \E list \in DetailedLists :
          commitAnalysisData = [detailed_commit_info |-> list]
    /\ commit = <<>>
    /\ Idle
    /\ selectedAuthor = ""
    /\ ComponentsAtRest

\* the effect that fills commitCategories for the selected author
CategorizeCommits ==
    /\ op = ""
    /\ "commits" \in DOMAIN insights
    /\ op' = "categorizeCommits"
    /\ arg' = 0
    /\ ret' = categorizeCommits(insights.commits)
    /\ UNCHANGED <<commit, insights, commitAnalysisData, components>>

\* the By Commit Type card; it is rendered when commitCategories holds a
\* group
TypeCountsCard ==
    /\ op = ""
    /\ "commits" \in DOMAIN insights
    /\ Len(insights.commits) > 0
    /\ \A n \in 1..Len(insights.commits) :
          CommitTypeOf(insights.commits[n]) # TypeError
    /\ op' = "typeCounts"
    /\ arg' = 0
    /\ ret' = sortedTypes(insights.commits)
    /\ UNCHANGED <<commit, insights, commitAnalysisData, components>>

\* one commit of the author's list is rendered
AuthorCommitBadges ==
    /\ op = ""
    /\ "commits" \in DOMAIN insights
    /\ \E i \in 1..Len(insights.commits) :
          /\ arg' = i
          /\ ret' = authorCommitBadges(insights.commits[i])
    /\ op' = "authorCommitBadges"
    /\ UNCHANGED <<commit, insights, commitAnalysisData, components>>

GetCommitData ==
    /\ op = ""
    /\ op' = "getCommitData"
    /\ arg' = 0
    /\ ret' = getCommitData(insights)
    /\ UNCHANGED <<commit, insights, commitAnalysisData, components>>

\* one card of the per-commit analysis is rendered
RenderCommitCard ==
    /\ op = ""
    /\ "detailed_commit_info" \in DOMAIN commitAnalysisData
    /\ \E i \in 1..Len(commitAnalysisData.detailed_commit_info) :
          /\ arg' = i
          /\ ret' = CommitCard(commitAnalysisData.detailed_commit_info[i])
    /\ op' = "CommitCard"
    /\ UNCHANGED <<commit, insights, commitAnalysisData, components>>

NextViews ==
    \/ CategorizeCommits
    \/ TypeCountsCard
    \/ Return

NextCommit ==
    \/ AuthorCommitBadges
    \/ GetCommitData
    \/ NextViews

NextCard ==
    \/ RenderCommitCard
    \/ Return

SpecViews == InitViews /\ [][NextViews]_vars

SpecCommit == InitCommit /\ [][NextCommit]_vars

SpecCard == InitCard /\ [][NextCard]_vars

(***************************************************************************)
(* AnalysisResults: the list of the selected author's commits              *)
(* (AnalysisResults.tsx 1490-1518).  The date of a commit is held as the   *)
(* number new Date(date).getTime() gives for it.                           *)
(***************************************************************************)
\* the comparator handed to sort: dateB - dateA for 'newest', dateA - dateB
\* for 'oldest'
compareByDate(a, b, order) ==
    IF order = "newest" THEN b.date - a.date ELSE a.date - b.date

\* x put into a list sorted by the comparator, behind the commits that do
\* not sort after it
InsertByDate(sorted, x, order) ==
    LET k == Cardinality({i \in 1..Len(sorted) :
                             compareByDate(sorted[i], x, order) <= 0})
    IN  SubSeq(sorted, 1, k) \o <<x>> \o SubSeq(sorted, k + 1, Len(sorted))

\* commits.sort(comparator): the sort is stable
RECURSIVE SortByDate(_, _, _)
SortByDate(list, n, order) ==
    IF n = 0 THEN <<>>
    ELSE InsertByDate(SortByDate(list, n - 1, order), list[n], order)

\* insights after commits.sort(...) has run on the selected author's
\* array: Array.prototype.sort sorts the array it is called on
sortInPlace(ins, order) ==
    [ins EXCEPT !.commits = SortByDate(@, Len(@), order)]

\* dated commits of the author, two of them of the same date
DatedCommit(m, additions, deletions, date) ==
    [message |-> m, additions |-> additions, deletions |-> deletions,
     files |-> <<FileApi>>, date |-> date]

DatedCommits == {
    DatedCommit(MsgWip, 100, 90, 3),
    DatedCommit(MsgAddNewFeature, 1, 1, 1),
    DatedCommit(MsgFixBug, 1, 1, 2),
    DatedCommit(MsgTestsX, 1, 0, 2)
}

DatedLists == UNION {[1..n -> DatedCommits] : n \in 0..MaxCommits}

InitAuthorList ==
    /\ \E list \in DatedLists : insights = [commits |-> list]
    /\ commitAnalysisData = <<>>
    /\ commit = <<>>
    /\ Idle
    /\ AuthorShown

\* the list "All Commits by <author>" is rendered
RenderAuthorCommits ==
    /\ op = ""
    /\ selectedAuthor # "" /\ "commits" \in DOMAIN insights
    /\ op' = "authorCommits"
    /\ arg' = 0
    /\ insights' = sortInPlace(insights, sortOrder)
    /\ ret' = Returned(insights'.commits)
    /\ UNCHANGED <<commit, commitAnalysisData, components>>

\* the Sort by select changes: setSortOrder(value), and the list is
\* rendered again with the new order
SetSortOrder ==
    /\ op = ""
    /\ selectedAuthor # "" /\ "commits" \in DOMAIN insights
    /\ \E value \in {"newest", "oldest"} :
          /\ sortOrder' = value
          /\ insights' = sortInPlace(insights, value)
    /\ op' = "setSortOrder"
    /\ arg' = 0
    /\ ret' = Returned(insights'.commits)
    /\ UNCHANGED <<commit, commitAnalysisData, selectedAuthor, modal, tabs,
                   report, pendingEffects>>

NextAuthorList ==
    \/ RenderAuthorCommits
    \/ SetSortOrder
    \/ CategorizeCommits
    \/ Return

SpecAuthorList == InitAuthorList /\ [][NextAuthorList]_vars

(***************************************************************************)
(* aggregateAuthor, the per-author aggregation of the API.  Its code is    *)
(* not among the sources; it is written from the description of the        *)
(* aggregation: a linear scan that counts the commits of quality Good, of  *)
(* risk None or Low and of complexity Simple, each count expressed as a    *)
(* rounded integer percentage of the number of commits.  The scorers are   *)
(* the ones of the results view.                                           *)
(***************************************************************************)
MaxAuthorCommits == 21

\* faulty variant: the percentage is truncated
Percentage_Truncated(count, total) == (100 * count) \div total

\* round(100 * count / total), halves rounded up
Percentage(count, total) == (200 * count + total) \div (2 * total)

QualityOf(c) ==
    getQualityAssessment(c.additions, c.deletions, Len(c.files))

RiskOf(c) == getRiskLevel(c.additions + c.deletions, Len(c.files))

ComplexityOf(c) == getComplexityLevel(c.additions + c.deletions)

\* the counters after the first n commits are scanned
RECURSIVE ScanAuthor(_, _)
ScanAuthor(commits, n) ==
    IF n = 0
    THEN [additions |-> 0, deletions |-> 0, files |-> 0,
          good |-> 0, lowRisk |-> 0, simple |-> 0]
    ELSE LET prev == ScanAuthor(commits, n - 1)
             c    == commits[n]
         IN  [additions |-> prev.additions + c.additions,
              deletions |-> prev.deletions + c.deletions,
              files     |-> prev.files + Len(c.files),
              good      |-> prev.good
                              + (IF QualityOf(c) = "Good" THEN 1 ELSE 0),
              lowRisk   |-> prev.lowRisk
                              + (IF RiskOf(c) \in {"None", "Low"}
                                 THEN 1 ELSE 0),
              simple    |-> prev.simple
                              + (IF ComplexityOf(c) = "Simple"
                                 THEN 1 ELSE 0)]

aggregateAuthor(commits) ==
    LET total == Len(commits)
        sums  == ScanAuthor(commits, total)
    IN  [total_commits   |-> total,
         additions       |-> sums.additions,
         deletions       |-> sums.deletions,
         files_changed   |-> sums.files,
         quality_metrics |->
             [quality_score   |-> Percentage(sums.good, total),
              low_risk_score  |-> Percentage(sums.lowRisk, total),
              simple_commits  |-> Percentage(sums.simple, total)],
         commits         |-> commits]

\* commits of an author: of quality Good (the second one removes lines
\* only), Questionable (more than three lines removed for each line added)
\* and N/A (no file)
AuthorCommitPool == <<
    ApiCommit(MsgWip, 10, 5, <<FileApi>>),
    ApiCommit(MsgWip, 0, 5, <<FileApi>>),
    ApiCommit(MsgWip, 1, 9, <<FileApi>>),
    ApiCommit(MsgWip, 60, 0, <<>>)>>

\* n commits, the first k of them Good, or the last k of them
AuthorList(n, k, goodFirst) ==
    [i \in 1..n |->
        IF (goodFirst /\ i <= k) \/ (~goodFirst /\ i > n - k)
        THEN AuthorCommitPool[1 + (i % 2)]
        ELSE AuthorCommitPool[3 + (i % 2)]]

AuthorLists ==
    {AuthorList(n, k, goodFirst) :
        n \in 1..MaxAuthorCommits, k \in 0..MaxAuthorCommits,
        goodFirst \in BOOLEAN}

InitAuthor ==
    /\ \E list \in {l \in AuthorLists : Len(l) > 0} :
          insights = [commits |-> list]
    /\ commitAnalysisData = <<>>
    /\ commit = <<>>
    /\ Idle
    /\ AuthorShown

\* the API computes the author's metrics
AggregateAuthor ==
    /\ op = ""
    /\ op' = "aggregateAuthor"
    /\ arg' = 0
    /\ ret' = Returned(aggregateAuthor(insights.commits))
    /\ UNCHANGED <<commit, insights, commitAnalysisData, components>>

NextAuthor ==
    \/ AggregateAuthor
    \/ Return

SpecAuthor == InitAuthor /\ [][NextAuthor]_vars

(***************************************************************************)
(* CommitAnalysisModal: the effect that loads the commit                   *)
(* (CommitAnalysisModal.tsx 90-128).  A request is sent by fetch and       *)
(* answered at any later time; the answers of two requests arrive in any   *)
(* order.  The data of a commit is held as its sha.                        *)
(***************************************************************************)
MaxRequests == 3

Shas == {"a1b2", "c3d4"}

\* the effect of a component is scheduled by the render that follows a
\* change of one of its dependencies, and React runs it before it handles
\* the next event
NoEffectPending == pendingEffects = {}

InitModal ==
    /\ \E open \in BOOLEAN, sha \in Shas \cup {""} :
          modal = [ModalClosed EXCEPT !.isOpen = open, !.commitSha = sha]
    /\ pendingEffects = {"fetchCommitDetails"}
    /\ insights = <<>> /\ commitAnalysisData = <<>> /\ commit = <<>>
    /\ selectedAuthor = "" /\ sortOrder = "newest"
    /\ TabsAtRest /\ ReportAtRest
    /\ Idle

\* the parent renders the modal with other props: opened, closed, or
\* another commit chosen
SetModalProps ==
    /\ op = ""
    /\ NoEffectPending
    /\ Len(modal.requests) < MaxRequests
    /\ \E open \in BOOLEAN, sha \in Shas \cup {""} :
          /\ <<open, sha>> # <<modal.isOpen, modal.commitSha>>
          /\ modal' = [modal EXCEPT !.isOpen = open, !.commitSha = sha]
    /\ pendingEffects' = pendingEffects \cup {"fetchCommitDetails"}
    /\ op' = "props"
    /\ arg' = 0
    /\ ret' = ""
    /\ UNCHANGED <<commit, insights, commitAnalysisData, selectedAuthor,
                   sortOrder, tabs, report>>

\* the effect: fetchCommitDetails up to its await
FetchCommitDetails ==
    /\ op = ""
    /\ "fetchCommitDetails" \in pendingEffects
    /\ modal' =
          IF ~modal.isOpen \/ modal.commitSha = "" THEN modal
          ELSE [modal EXCEPT
                   !.isLoading = TRUE,
                   !.error     = "",
                   !.requests  = Append(@, [sha    |-> modal.commitSha,
                                            status |-> "pending"])]
    /\ pendingEffects' = pendingEffects \ {"fetchCommitDetails"}
    /\ op' = "fetchCommitDetails"
    /\ arg' = Len(modal'.requests)
    /\ ret' = ""
    /\ UNCHANGED <<commit, insights, commitAnalysisData, selectedAuthor,
                   sortOrder, tabs, report>>

\* request i is answered with the commit: setCommit(data), and finally
\* setIsLoading(false)
ResponseOk ==
    /\ op = ""
    /\ \E i \in 1..Len(modal.requests) :
          /\ modal.requests[i].status = "pending"
          /\ modal' = [modal EXCEPT
                          !.commit    = modal.requests[i].sha,
                          !.isLoading = FALSE,
                          !.requests[i].status = "ok"]
          /\ arg' = i
    /\ op' = "response"
    /\ ret' = ""
    /\ UNCHANGED <<commit, insights, commitAnalysisData, selectedAuthor,
                   sortOrder, tabs, report, pendingEffects>>

\* request i fails (fetch rejects, or the response is not ok): setError,
\* and finally setIsLoading(false)
ResponseFailed ==
    /\ op = ""
    /\ \E i \in 1..Len(modal.requests) :
          /\ modal.requests[i].status = "pending"
          /\ modal' = [modal EXCEPT
                          !.error     = "Failed to load commit details. Please try again.",
                          !.isLoading = FALSE,
                          !.requests[i].status = "failed"]
          /\ arg' = i
    /\ op' = "response"
    /\ ret' = ""
    /\ UNCHANGED <<commit, insights, commitAnalysisData, selectedAuthor,
                   sortOrder, tabs, report, pendingEffects>>

NextModal ==
    \/ SetModalProps
    \/ FetchCommitDetails
    \/ ResponseOk
    \/ ResponseFailed
    \/ Return

SpecModal == InitModal /\ [][NextModal]_vars

(***************************************************************************)
(* AnalysisResults: the selected author (AnalysisResults.tsx 680,          *)
(* 940-948, 1419)                                                          *)
(***************************************************************************)
MaxDevelopers == 2

Usernames == {"alice", "bob", "carol"}

\* insights?.by_developer?.map(dev => dev.username) || []
availableAuthors(ins) ==
    IF "by_developer" \in DOMAIN ins
    THEN [i \in 1..Len(ins.by_developer) |-> ins.by_developer[i].username]
    ELSE <<>>

\* authors.includes(name)
Includes(authors, name) == \E i \in 1..Len(authors) : authors[i] = name

\* useState(insights?.by_developer?.[0]?.username || "")
initialAuthor(ins) ==
    IF Len(availableAuthors(ins)) > 0 THEN availableAuthors(ins)[1] ELSE ""

\* faulty variant: the first developer is selected whenever there is one
authorAfterEffect_Always(authors, selected) ==
    IF Len(authors) > 0 THEN authors[1] ELSE selected

\* the selected author after the effect has run: the first developer when
\* there is one and selectedAuthor is empty or not listed
authorAfterEffect(authors, selected) ==
    IF Len(authors) > 0 /\ (selected = "" \/ ~Includes(authors, selected))
    THEN authors[1]
    ELSE selected

\* the insights the results view may be given: null, or an analysis with
\* its developers
DeveloperInsights ==
    {<<>>} \cup
    {[by_developer |-> [i \in 1..Len(names) |-> [username |-> names[i]]]] :
        names \in UNION {[1..n -> Usernames] : n \in 0..MaxDevelopers}}

InitSelect ==
    /\ insights \in DeveloperInsights
    /\ selectedAuthor = initialAuthor(insights)
    /\ pendingEffects = {"selectedAuthor"}
    /\ sortOrder = "newest"
    /\ commitAnalysisData = <<>> /\ commit = <<>>
    /\ ModalAtRest /\ TabsAtRest /\ ReportAtRest
    /\ Idle

\* the Select of the author tab: onValueChange={setSelectedAuthor}
SelectAuthor ==
    /\ op = ""
    /\ NoEffectPending
    /\ \E i \in 1..Len(availableAuthors(insights)) :
          /\ availableAuthors(insights)[i] # selectedAuthor
          /\ selectedAuthor' = availableAuthors(insights)[i]
          /\ arg' = i
    /\ pendingEffects' = pendingEffects \cup {"selectedAuthor"}
    /\ op' = "setSelectedAuthor"
    /\ ret' = selectedAuthor
    /\ UNCHANGED <<commit, insights, commitAnalysisData, sortOrder, modal,
                   tabs, report>>

\* the parent hands the view the insights of another analysis
SetInsights ==
    /\ op = ""
    /\ NoEffectPending
    /\ \E ins \in DeveloperInsights :
          /\ ins # insights
          /\ insights' = ins
    /\ pendingEffects' = pendingEffects \cup {"selectedAuthor"}
    /\ op' = "insights"
    /\ arg' = 0
    /\ ret' = selectedAuthor
    /\ UNCHANGED <<commit, commitAnalysisData, selectedAuthor, sortOrder,
                   modal, tabs, report>>

\* the effect "Update selected author if not set or not in available
\* authors"; a change of selectedAuthor renders and schedules it again
SelectedAuthorEffect ==
    /\ op = ""
    /\ "selectedAuthor" \in pendingEffects
    /\ selectedAuthor' =
          authorAfterEffect(availableAuthors(insights), selectedAuthor)
    /\ pendingEffects' =
          IF selectedAuthor' # selectedAuthor THEN pendingEffects
          ELSE pendingEffects \ {"selectedAuthor"}
    /\ op' = "selectedAuthorEffect"
    /\ arg' = 0
    /\ ret' = selectedAuthor
    /\ UNCHANGED <<commit, insights, commitAnalysisData, sortOrder, modal,
                   tabs, report>>

NextSelect ==
    \/ SelectAuthor
    \/ SetInsights
    \/ SelectedAuthorEffect
    \/ Return

\* React runs a scheduled effect, and a handler returns
SpecSelect ==
    /\ InitSelect /\ [][NextSelect]_vars
    /\ WF_vars(SelectedAuthorEffect) /\ WF_vars(Return)

(***************************************************************************)
(* MainTabs, the plan-gated version (MainTabs.tsx 51-93).  The plan is     *)
(* read from the user's metadata in each render; a handler reads the plan  *)
(* of the latest render.                                                   *)
(***************************************************************************)
\* the insights of two analyses
AnalysisData == {1, 2}

\* the values a tab change may ask for
TabValues == <<"analysis", "results", "upgrade">>

isFreePlan(t) == t.userPlan = "Free"

\* faulty variant: the requested tab is set whatever the plan
handleTabChange_Ungated(t, value) == [t EXCEPT !.activeTab = value]

handleTabChange(t, value) ==
    IF isFreePlan(t) /\ value # "upgrade" THEN t
    ELSE [t EXCEPT !.activeTab = value]

handleAnalysisComplete(t, data) ==
    [t EXCEPT !.insights    = data,
              !.isAnalyzing = FALSE,
              !.activeTab   = IF ~isFreePlan(t) THEN "results" ELSE @]

handleAnalyzeStart(t) == [t EXCEPT !.isAnalyzing = TRUE]

\* the body of the effect "handle plan changes and redirect if needed"
redirectToUpgrade(t) ==
    IF isFreePlan(t) /\ t.activeTab # "upgrade"
    THEN [t EXCEPT !.activeTab = "upgrade"]
    ELSE t

\* the effect is scheduled again by a render in which isFreePlan or
\* activeTab has changed
TabsEffectsAfter(t, next) ==
    IF isFreePlan(t) # isFreePlan(next) \/ t.activeTab # next.activeTab
    THEN {"redirectToUpgrade"}
    ELSE {}

InitTabs ==
    /\ \E plan \in {"Free", "Premium"} : tabs = TabsAtMount(plan)
    /\ pendingEffects = {"redirectToUpgrade"}
    /\ insights = <<>> /\ commitAnalysisData = <<>> /\ commit = <<>>
    /\ selectedAuthor = "" /\ sortOrder = "newest"
    /\ ModalAtRest /\ ReportAtRest
    /\ Idle

TabsFrame ==
    UNCHANGED <<commit, insights, commitAnalysisData, selectedAuthor,
                sortOrder, modal, report>>

\* Tabs onValueChange={handleTabChange}
HandleTabChange ==
    /\ op = ""
    /\ NoEffectPending
    /\ \E i \in 1..Len(TabValues) :
          /\ tabs' = handleTabChange(tabs, TabValues[i])
          /\ arg' = i
    /\ pendingEffects' = TabsEffectsAfter(tabs, tabs')
    /\ op' = "handleTabChange"
    /\ ret' = ""
    /\ TabsFrame

\* ReportAnalysis reports the insights of a finished analysis
HandleAnalysisComplete ==
    /\ op = ""
    /\ NoEffectPending
    /\ \E data \in AnalysisData : tabs' = handleAnalysisComplete(tabs, data)
    /\ pendingEffects' = TabsEffectsAfter(tabs, tabs')
    /\ op' = "handleAnalysisComplete"
    /\ arg' = 0
    /\ ret' = ""
    /\ TabsFrame

\* ReportAnalysis reports that an analysis has started
HandleAnalyzeStart ==
    /\ op = ""
    /\ NoEffectPending
    /\ tabs' = handleAnalyzeStart(tabs)
    /\ pendingEffects' = TabsEffectsAfter(tabs, tabs')
    /\ op' = "handleAnalyzeStart"
    /\ arg' = 0
    /\ ret' = ""
    /\ TabsFrame

\* the user's metadata arrives with another plan
PlanChange ==
    /\ op = ""
    /\ NoEffectPending
    /\ \E plan \in {"Free", "Premium"} :
          /\ plan # tabs.userPlan
          /\ tabs' = [tabs EXCEPT !.userPlan = plan]
    /\ pendingEffects' = TabsEffectsAfter(tabs, tabs')
    /\ op' = "user"
    /\ arg' = 0
    /\ ret' = ""
    /\ TabsFrame

\* the effect runs
RedirectToUpgrade ==
    /\ op = ""
    /\ "redirectToUpgrade" \in pendingEffects
    /\ tabs' = redirectToUpgrade(tabs)
    /\ pendingEffects' = TabsEffectsAfter(tabs, tabs')
    /\ op' = "redirectToUpgrade"
    /\ arg' = 0
    /\ ret' = ""
    /\ TabsFrame

NextTabs ==
    \/ HandleTabChange
    \/ HandleAnalysisComplete
    \/ HandleAnalyzeStart
    \/ PlanChange
    \/ RedirectToUpgrade
    \/ Return

\* React runs a scheduled effect, and a handler returns
SpecTabs ==
    /\ InitTabs /\ [][NextTabs]_vars
    /\ WF_vars(RedirectToUpgrade) /\ WF_vars(Return)

(***************************************************************************)
(* ReportAnalysis: the selection of branches (ReportAnalysis 105-172; the  *)
(* buttons at 375-376, 386-425).  A branch is held as its name; the names  *)
(* of the branches of a repository differ.                                 *)
(***************************************************************************)
MaxBranches == 2

BranchNames == {"main", "dev", "release"}

\* the lists of branches the API may answer with
BranchLists ==
    {list \in UNION {[1..n -> BranchNames] : n \in 0..MaxBranches} :
        \A i, j \in 1..Len(list) : i # j => list[i] # list[j]}

RECURSIVE Filter(_, _)
\* names.filter(name => name !== branchName)
Filter(names, branchName) ==
    IF names = <<>> THEN <<>>
    ELSE IF Head(names) = branchName THEN Filter(Tail(names), branchName)
    ELSE <<Head(names)>> \o Filter(Tail(names), branchName)

\* prev => prev.includes(branchName) ? prev.filter(...) : [...prev, branchName]
handleBranchToggle(prev, branchName) ==
    IF \E i \in 1..Len(prev) : prev[i] = branchName
    THEN Filter(prev, branchName)
    ELSE Append(prev, branchName)

InitReport ==
    /\ report = ReportAtMount
    /\ insights = <<>> /\ commitAnalysisData = <<>> /\ commit = <<>>
    /\ selectedAuthor = "" /\ sortOrder = "newest"
    /\ ModalAtRest /\ TabsAtRest /\ pendingEffects = {}
    /\ Idle

ReportFrame ==
    UNCHANGED <<commit, insights, commitAnalysisData, selectedAuthor,
                sortOrder, modal, tabs, pendingEffects>>

\* the button Fetch Branches, disabled while isLoadingBranches:
\* handleFetchBranches up to its await.  filled: owner, name and token are
\* filled in
HandleFetchBranches ==
    /\ op = ""
    /\ ~report.isLoadingBranches
    /\ \E filled \in BOOLEAN :
          /\ report' = IF ~filled THEN report
                       ELSE [report EXCEPT !.isLoadingBranches = TRUE,
                                           !.error = "",
                                           !.fetching = TRUE]
          /\ arg' = IF filled THEN 1 ELSE 0
    /\ op' = "handleFetchBranches"
    /\ ret' = ""
    /\ ReportFrame

\* the API answers with the branches: setBranches(data.branches || []),
\* setSelectedBranches([]), finally setIsLoadingBranches(false)
FetchBranchesOk ==
    /\ op = ""
    /\ report.fetching
    /\ \E list \in BranchLists :
          report' = [report EXCEPT !.branches = list,
                                   !.selectedBranches = <<>>,
                                   !.isLoadingBranches = FALSE,
                                   !.fetching = FALSE]
    /\ op' = "fetchBranches"
    /\ arg' = 1
    /\ ret' = ""
    /\ ReportFrame

\* the request fails or the response is not ok: the catch block runs
\* setError and setBranches([]), finally setIsLoadingBranches(false)
FetchBranchesFailed ==
    /\ op = ""
    /\ report.fetching
    /\ report' = [report EXCEPT !.error = "Failed to fetch branches",
                                !.branches = <<>>,
                                !.isLoadingBranches = FALSE,
                                !.fetching = FALSE]
    /\ op' = "fetchBranches"
    /\ arg' = 0
    /\ ret' = ""
    /\ ReportFrame

\* the checkbox of a listed branch
HandleBranchToggle ==
    /\ op = ""
    /\ \E i \in 1..Len(report.branches) :
          /\ report' = [report EXCEPT !.selectedBranches =
                           handleBranchToggle(@, report.branches[i])]
          /\ arg' = i
    /\ op' = "handleBranchToggle"
    /\ ret' = ""
    /\ ReportFrame

\* the button Select All, shown when branches are listed
HandleSelectAll ==
    /\ op = ""
    /\ Len(report.branches) > 0
    /\ report' = [report EXCEPT !.selectedBranches = report.branches]
    /\ op' = "handleSelectAll"
    /\ arg' = 0
    /\ ret' = ""
    /\ ReportFrame

\* the button Clear All, shown when branches are listed
HandleClearAll ==
    /\ op = ""
    /\ Len(report.branches) > 0
    /\ report' = [report EXCEPT !.selectedBranches = <<>>]
    /\ op' = "handleClearAll"
    /\ arg' = 0
    /\ ret' = ""
    /\ ReportFrame

NextReport ==
    \/ HandleFetchBranches
    \/ FetchBranchesOk
    \/ FetchBranchesFailed
    \/ HandleBranchToggle
    \/ HandleSelectAll
    \/ HandleClearAll
    \/ Return

SpecReport == InitReport /\ [][NextReport]_vars

(***************************************************************************)
(* Properties.  What each one needs is stated independently of the         *)
(* operators above: by positions in the message rather than by the scan    *)
(* the code makes.                                                         *)
(***************************************************************************)
Added   == commit.linesAdded
Removed == commit.linesRemoved
Files   == commit.filesChanged

\* the pending call is a call of determineSSMCategory
SSMCalled == op = "determineSSMCategory"

\* hasPattern(message, list k), as determineSSMCategory asks it
ListMatches(k) == hasPattern(MessageOf(commit), PatternLists[k])

\* deletions / additions lies strictly between 0.7 and 1.3
RatioStrictlyInside ==
    Added > 0 /\ 7 * Added < 10 * Removed /\ 10 * Removed < 13 * Added

\* which of the eleven rules match the commit, in the order of the cascade
RuleHits ==
    <<ListMatches(1), ListMatches(2), ListMatches(3), ListMatches(4),
      ListMatches(5), ListMatches(6), ListMatches(7), ListMatches(8),
      RatioStrictlyInside \/ ListMatches(9), ListMatches(10), TRUE>>

RuleCategory ==
    <<"Integration", "Rollback", "Architectural", "Feature", "Bug Fix",
      "Documentation", "Test", "Configuration", "Refactoring", "Maintenance",
      IF Added + Removed > 100 THEN "Architectural" ELSE "Trivial">>

\* C1: determineSSMCategory returns the category of the first rule, in the
\* order Integration, Rollback, Architectural, Feature, Bug Fix,
\* Documentation, Test, Configuration, Refactoring, Maintenance, size
\* fallback, that matches the commit; "fix merge conflict" is Integration.
C1_FirstMatchingRuleWins ==
    SSMCalled =>
        /\ LET hits == RuleHits
           IN  \A i \in 1..11 :
                   (hits[i] /\ \A j \in 1..(i - 1) : ~hits[j])
                       => ret = RuleCategory[i]
        /\ commit.message = MsgFixMergeConflict => ret = "Integration"

\* a message that matches the Bug Fix rule and the Integration rule is
\* classified Integration
C1_Witness ==
    /\ SSMCalled
    /\ commit.message = MsgFixBugMerge
    /\ ListMatches(5)
    /\ ret = "Integration"

CommitTypes ==
    {"Bug Fix", "Feature", "Refactor", "Documentation", "Test", "Chore", "Other"}

SSMCategories ==
    {"Integration", "Rollback", "Architectural", "Feature", "Bug Fix",
     "Documentation", "Test", "Configuration", "Refactoring", "Maintenance",
     "Trivial"}

OccursIn(kw, m) ==
    \E i \in 1..(Len(m) - Len(kw) + 1) :
        [k \in 1..Len(kw) |-> LowerChar(m[i + k - 1])] = kw

\* the first commit type, in the order of the keyword list, one of whose
\* keywords occurs in m
FirstKeywordType(m) ==
    LET keywords == <<
            <<{KwFix, KwBug}, "Bug Fix">>,
            <<{KwFeat, KwAdd}, "Feature">>,
            <<{KwRefactor}, "Refactor">>,
            <<{KwDoc}, "Documentation">>,
            <<{KwTest}, "Test">>,
            <<{KwChore}, "Chore">> >>
        found(i) == \E kw \in keywords[i][1] : OccursIn(kw, m)
    IN  IF \E i \in 1..6 : found(i)
        THEN keywords[CHOOSE i \in 1..6 : found(i) /\ \A j \in 1..(i - 1) : ~found(j)][2]
        ELSE "Other"

\* C3: both copies of getCommitType return the type of the first keyword
\* group (fix/bug, feat/add, refactor, doc, test, chore) that occurs in the
\* message, without regard to case, and Other when none occurs.
C3_FirstKeywordWins ==
    op \in {"getCommitType", "Modal.getCommitType"}
        => ret = FirstKeywordType(commit.message)

\* "Add test" holds "add" and "test": it is a Feature, in the modal's copy
C3_Witness ==
    /\ op = "Modal.getCommitType"
    /\ commit.message = <<"A","d","d"," ","t","e","s","t">>
    /\ ret = "Feature"

\* C4: both copies of getComplexityLevel give Simple below 10 changed
\* lines, Moderate from 10 to 49, Complex from 50 to 199 and Very Complex
\* from 200 on.
C4_ComplexityBuckets ==
    op \in {"getComplexityLevel", "Modal.getComplexityLevel"} =>
        LET t == Added + Removed
        IN  /\ t < 10 => ret = "Simple"
            /\ 10 <= t /\ t < 50 => ret = "Moderate"
            /\ 50 <= t /\ t < 200 => ret = "Complex"
            /\ t >= 200 => ret = "Very Complex"

\* exactly 200 changed lines are Very Complex
C4_Witness ==
    /\ op = "Modal.getComplexityLevel"
    /\ Added + Removed = 200
    /\ ret = "Very Complex"

\* C5: both copies of getRiskLevel give None without files, else High above
\* 100 lines or 5 files, else Medium above 50 lines or 2 files, else Low.
C5_RiskLevels ==
    op \in {"getRiskLevel", "Modal.getRiskLevel"} =>
        LET t == Added + Removed
        IN  ret = IF Files = 0 THEN "None"
                  ELSE IF t > 100 \/ Files > 5 THEN "High"
                  ELSE IF t > 50 \/ Files > 2 THEN "Medium"
                  ELSE "Low"

\* exactly 100 changed lines in 5 files are Medium
C5_Witness ==
    /\ op = "getRiskLevel"
    /\ Added + Removed = 100
    /\ Files = 5
    /\ ret = "Medium"

\* C6: both copies of getQualityAssessment give N/A without files, else
\* Needs Review above 10 files, else Questionable when lines were added and
\* more than three times as many removed, else Good.
C6_QualityAssessment ==
    op \in {"getQualityAssessment", "Modal.getQualityAssessment"} =>
        /\ Files = 0 => ret = "N/A"
        /\ Files > 10 => ret = "Needs Review"
        /\ Files \in 1..10 /\ Added > 0 /\ Removed > 3 * Added
               => ret = "Questionable"
        /\ Files \in 1..10 /\ ~(Added > 0 /\ Removed > 3 * Added)
               => ret = "Good"
        /\ Files \in 1..10 /\ Added = 0 => ret = "Good"

\* a commit that only deletes, and deletes much, is Good
C6_Witness ==
    /\ op = "getQualityAssessment"
    /\ Added = 0
    /\ Removed = 201
    /\ Files = 10
    /\ ret = "Good"

\* the message as hasPattern compares it: lower case, and a space for every
\* character that is neither a word character nor white space
Normalized(m) ==
    [i \in 1..Len(m) |->
        IF IsWordChar(m[i]) THEN LowerChar(m[i])
        ELSE IF IsSpace(m[i]) THEN m[i]
        ELSE " "]

\* the pieces of s between its runs of white space: every maximal run of
\* other characters, and the empty piece before white space that starts s
\* or after white space that ends s (the only piece of the empty string)
PieceStarts(s) ==
    {i \in 1..(Len(s) + 1) :
        /\ i = 1 \/ IsSpace(s[i - 1])
        /\ i = 1 \/ i = Len(s) + 1 \/ ~IsSpace(s[i])}

PieceEnd(s, i) ==
    CHOOSE j \in (i - 1)..Len(s) :
        /\ \A k \in i..j : ~IsSpace(s[k])
        /\ j = Len(s) \/ IsSpace(s[j + 1])

Tokens(s) == {SubSeq(s, i, PieceEnd(s, i)) : i \in PieceStarts(s)}

\* a occurs in b
Within(a, b) ==
    \E i \in 1..(Len(b) - Len(a) + 1) : SubSeq(b, i, i + Len(a) - 1) = a

\* the rule of one pattern of a list, for the normalized message msg and
\* its tokens
PatternRule(pattern, msg, tokens) ==
    IF pattern.t = "str"
    THEN \A pw \in Tokens([i \in 1..Len(pattern.s) |-> LowerChar(pattern.s[i])]) :
             \E w \in tokens : Within(pw, w) \/ Within(w, pw)
    ELSE RegExpTest(pattern, msg)

\* C7: hasPattern is true exactly when some pattern of the list satisfies
\* its rule: a regular expression matches the normalized message; every
\* word of a literal pattern has a token of the message that contains it
\* or is contained in it.
C7_HasPatternRule ==
    op = "hasPattern" =>
        LET msg    == Normalized(MessageOf(commit))
            tokens == Tokens(msg)
        IN  ret = \E k \in 1..Len(PatternLists[arg]) :
                      PatternRule(PatternLists[arg][k], msg, tokens)

\* "feat: Add" matches the Feature list by 'add feature': "add" is a token,
\* and the token "feat" is contained in "feature"
C7_Witness ==
    /\ op = "hasPattern"
    /\ arg = 4
    /\ commit.message = <<"f","e","a","t",":"," ","A","d","d">>
    /\ ret = TRUE

\* C8: when no vocabulary of rules 1-8 and no refactor vocabulary matches,
\* the result is Refactoring exactly when deletions / additions lies
\* strictly between 0.7 and 1.3.
C8_RefactorRatio ==
    (SSMCalled /\ \A k \in 1..9 : ~ListMatches(k)) =>
        /\ (ret = "Refactoring") = RatioStrictlyInside
        /\ Added = 100 /\ Removed = 90 => ret = "Refactoring"
        /\ Added = 100 /\ Removed = 40 => ret # "Refactoring"
        /\ Added = 10 /\ Removed \in {7, 13} => ret # "Refactoring"
        /\ Added = 0 => ret # "Refactoring"

\* 10 additions and 7 deletions, the ratio 0.7 itself, are not Refactoring
C8_Witness ==
    /\ SSMCalled
    /\ commit.message = MsgWip
    /\ Added = 10
    /\ Removed = 7
    /\ ret = "Trivial"

\* C9: a commit that matches none of rules 1-10 is Architectural above 100
\* changed lines and Trivial otherwise.
C9_SizeFallback ==
    (SSMCalled /\ ~RatioStrictlyInside /\ \A k \in 1..10 : ~ListMatches(k)) =>
        ret = IF Added + Removed > 100 THEN "Architectural" ELSE "Trivial"

\* exactly 100 changed lines are Trivial
C9_Witness ==
    /\ SSMCalled
    /\ commit.message = MsgPolishUi
    /\ Added + Removed = 100
    /\ ret = "Trivial"

\* the message starts with a match of the prefix expression
StartsWith(re, m) == Ends(re, m, 1) # {}

\* C10: a message that starts with feat: / feat(scope):, fix:, docs: or
\* test: / tests: is classified Feature, Bug Fix, Documentation or Test
\* when no earlier rule matches.
C10_PrefixDecides ==
    SSMCalled =>
        LET m == MessageOf(commit)
            noneBefore(i) == \A k \in 1..(i - 1) : ~ListMatches(k)
        IN  /\ StartsWith(FeatRe, m) /\ noneBefore(4) => ret = "Feature"
            /\ StartsWith(FixRe, m) /\ noneBefore(5) => ret = "Bug Fix"
            /\ StartsWith(DocsRe, m) /\ noneBefore(6) => ret = "Documentation"
            /\ StartsWith(TestRe, m) /\ noneBefore(7) => ret = "Test"

(***************************************************************************)
(* Properties of the views                                                 *)
(***************************************************************************)
\* the selected author's commits
Commits == insights.commits

\* every commit of the list carries a message
AllCarryMessage == \A n \in 1..Len(Commits) : "message" \in DOMAIN Commits[n]

\* the SSM category and the commit type a commit of the list is counted
\* under
CategoryOf(n) == determineSSMCategory(CategorizeArgument(Commits[n]))
TypeOf(n)     == getCommitType(Commits[n].message)

RECURSIVE SumCounts(_, _)
SumCounts(entries, n) ==
    IF n = 0 THEN 0 ELSE entries[n].count + SumCounts(entries, n - 1)

FirstSeen(category) ==
    CHOOSE n \in 1..Len(Commits) :
        /\ CategoryOf(n) = category
        /\ \A k \in 1..(n - 1) : CategoryOf(k) # category

\* C12: categorizeCommits returns its groups by count, the larger first,
\* and groups of equal count in the order in which their categories are
\* first seen in the list.
C12_SortedByCountStable ==
    (op = "categorizeCommits" /\ AllCarryMessage) =>
        \A i, j \in 1..Len(ret.value) :
            i < j =>
                \/ ret.value[i].count > ret.value[j].count
                \/ /\ ret.value[i].count = ret.value[j].count
                   /\ FirstSeen(ret.value[i].category)
                          < FirstSeen(ret.value[j].category)

\* the category seen second in the list has two commits and comes first
C12_Witness ==
    /\ op = "categorizeCommits"
    /\ AllCarryMessage
    /\ Len(Commits) = 3
    /\ Len(ret.value) = 2
    /\ FirstSeen(ret.value[1].category) = 2
    /\ FirstSeen(ret.value[2].category) = 1

\* C13: the types of a group are exactly the commit types of the commits
\* of its category, each listed once.
C13_TypesOfGroup ==
    (op = "categorizeCommits" /\ AllCarryMessage) =>
        \A i \in 1..Len(ret.value) :
            LET types == ret.value[i].types
            IN  /\ {types[k] : k \in 1..Len(types)} =
                       {TypeOf(n) : n \in {m \in 1..Len(Commits) :
                                    CategoryOf(m) = ret.value[i].category}}
                /\ \A k, l \in 1..Len(types) : k # l => types[k] # types[l]

\* a group of three commits of two types: Bug Fix twice and Test
C13_Witness ==
    /\ op = "categorizeCommits"
    /\ AllCarryMessage
    /\ Len(ret.value) = 1
    /\ ret.value[1].category = "Bug Fix"
    /\ ret.value[1].count = 3
    /\ ret.value[1].types = <<"Bug Fix", "Test">>

\* the commit of the author's list whose badges were computed
BadgedCommit == insights.commits[arg]

\* C14 as stated: "fix(api): handle null token" with 12 additions, 3
\* deletions and 2 files is of type Bug Fix and category Bug Fix, Simple,
\* of Low risk and Good quality.
C14_FixApiScenario_Simple ==
    (op = "authorCommitBadges" /\ BadgedCommit = FixApiCommit) =>
        ret = [type       |-> "Bug Fix",
               ssm        |-> "Bug Fix",
               complexity |-> "Simple",
               risk       |-> "Low",
               quality    |-> "Good"]

\* C14, amended: "fix(api): handle null token" with 12 additions, 3
\* deletions and 2 files is of type Bug Fix and category Bug Fix, Moderate
\* (15 changed lines are not below 10), of Low risk and Good quality.
C14_FixApiScenario ==
    (op = "authorCommitBadges" /\ BadgedCommit = FixApiCommit) =>
        ret = [type       |-> "Bug Fix",
               ssm        |-> "Bug Fix",
               complexity |-> "Moderate",
               risk       |-> "Low",
               quality    |-> "Good"]

\* the badges of that commit are computed, for its 15 changed lines
C14_Witness ==
    /\ op = "authorCommitBadges"
    /\ BadgedCommit = FixApiCommit
    /\ NumberOf(BadgedCommit, "additions") + NumberOf(BadgedCommit, "deletions") = 15
    /\ FilesLength(BadgedCommit) = 2
    /\ ret.complexity = "Moderate"
    /\ ret.ssm = "Bug Fix"

\* C15: "Merge pull request #42" with no additions, no deletions and no
\* files is of category Integration, of risk None and quality N/A.
C15_MergeScenario ==
    /\ (op = "authorCommitBadges" /\ BadgedCommit = MergeCommit) =>
          /\ ret.ssm = "Integration"
          /\ ret.risk = "None"
          /\ ret.quality = "N/A"
    /\ (op = "categorizeCommits" /\ Commits = <<MergeCommit>>) =>
          /\ ret.type = "return"
          /\ Len(ret.value) = 1
          /\ ret.value[1].category = "Integration"
    /\ (op = "getCommitData" /\ Commits = <<MergeCommit>>) =>
          ret.ssmCategory = "Integration"

\* the badges of that commit are computed
C15_Witness ==
    /\ op = "authorCommitBadges"
    /\ BadgedCommit = MergeCommit
    /\ FilesLength(BadgedCommit) = 0
    /\ ret.ssm = "Integration"
    /\ ret.risk = "None"
    /\ ret.quality = "N/A"

\* the line counts of a commit of the API, 0 for a missing one
AdditionsOf(c) == NumberOf(c, "additions")
DeletionsOf(c) == NumberOf(c, "deletions")

\* what the numeric rules alone give: Refactoring for a ratio deletions /
\* additions strictly between 0.7 and 1.3, else Architectural above 100
\* changed lines, else Trivial
NumericCategory(c) ==
    LET a == AdditionsOf(c)
        d == DeletionsOf(c)
    IN  IF a > 0 /\ 7 * a < 10 * d /\ 10 * d < 13 * a THEN "Refactoring"
        ELSE IF a + d > 100 THEN "Architectural"
        ELSE "Trivial"

\* C16: a commit that matches no vocabulary is classified by the numeric
\* rules alone, and so is a commit whose message is empty or absent: it is
\* never given a vocabulary category such as Integration.
C16_EmptyMessageNumericOnly ==
    op = "authorCommitBadges" =>
        /\ (\A k \in 1..Len(PatternLists) :
               ~hasPattern(MessageOf(BadgedCommit), PatternLists[k]))
               => ret.ssm = NumericCategory(BadgedCommit)
        /\ MessageOf(BadgedCommit) = <<>>
               => ret.ssm = NumericCategory(BadgedCommit)

\* C17: categorizeCommits does not throw on a list with a commit that lacks
\* its message, its line counts or its files; its counts sum to the length
\* of the list, the missing fields counting as empty and zero.
C17_MalformedCommitContained ==
    op = "categorizeCommits" =>
        /\ ret.type = "return"
        /\ SumCounts(ret.value, Len(ret.value)) = Len(Commits)
        /\ \A i \in 1..Len(ret.value) :
              ret.value[i].count =
                  Cardinality({n \in 1..Len(Commits) :
                      determineSSMCategory(AuthorViewArgument(Commits[n]))
                          = ret.value[i].category})

\* C18: a commit without a files list counts 0 files in categorizeCommits
\* and in the author's commit list; its risk is None and its quality N/A
\* whatever its line counts, and no error is raised.
C18_NoFilesList ==
    /\ (op = "authorCommitBadges" /\ "files" \notin DOMAIN BadgedCommit) =>
          /\ ret.risk = "None"
          /\ ret.quality = "N/A"
          /\ ret.ssm \in SSMCategories
    /\ (op = "categorizeCommits" /\ AllCarryMessage) =>
          /\ ret.type = "return"
          /\ \A n \in 1..Len(Commits) :
                "files" \notin DOMAIN Commits[n] =>
                    /\ CategorizeArgument(Commits[n]).filesChanged = 0
                    /\ \E i \in 1..Len(ret.value) :
                          ret.value[i].category = CategoryOf(n)

\* 100 additions and 101 deletions without a files list: risk None
C18_Witness ==
    /\ op = "authorCommitBadges"
    /\ "files" \notin DOMAIN BadgedCommit
    /\ AdditionsOf(BadgedCommit) = 100
    /\ DeletionsOf(BadgedCommit) = 101
    /\ ret.risk = "None"
    /\ ret.quality = "N/A"

\* C19: the latest-commit card gives a commit the SSM category that the
\* author's commit list and categorizeCommits give a commit with the same
\* message, additions and deletions.
C19_LatestCommitSameCategory ==
    (op = "getCommitData" /\ "latest_commit" \in DOMAIN insights) =>
        /\ ret.ssmCategory =
               determineSSMCategory(AuthorViewArgument(insights.latest_commit))
        /\ ret.ssmCategory =
               determineSSMCategory(CategorizeArgument(insights.latest_commit))

\* the commit whose card was rendered
CardCommit == commitAnalysisData.detailed_commit_info[arg]

\* C20: the risk level CommitCard shows as the text of the badge is
\* getRiskLevel(lines_added + lines_removed, number of files changed), the
\* level that selects the style of the badge.
C20_RiskBadgeText ==
    op = "CommitCard" =>
        LET level == getRiskLevel(
                         CardCommit.lines_added + CardCommit.lines_removed,
                         Len(CardCommit.files_changed))
        IN  /\ ret.riskText = level
            /\ ret.riskVariant = IF level = "High" THEN "destructive"
                                 ELSE IF level = "Medium" THEN "secondary"
                                 ELSE "outline"

(***************************************************************************)
(* Properties of the classifiers, continued                                *)
(***************************************************************************)
\* the message carries Maintenance vocabulary and none of the vocabulary of
\* the nine rules before it
MaintenanceVocabularyOnly ==
    ListMatches(10) /\ \A k \in 1..9 : ~ListMatches(k)

\* C26: the ratio heuristic precedes the Maintenance vocabulary: a commit
\* whose message matches the Maintenance list and none of the lists of
\* rules 1 to 9 is Refactoring when deletions / additions lies strictly
\* between 0.7 and 1.3, and Maintenance when additions is 0 or the ratio is
\* not strictly inside.
C26_RatioBeforeMaintenance ==
    (SSMCalled /\ MaintenanceVocabularyOnly) =>
        ret = IF RatioStrictlyInside THEN "Refactoring" ELSE "Maintenance"

\* "chore" with 100 lines added and 90 removed is Refactoring
C26_Witness ==
    /\ SSMCalled /\ MaintenanceVocabularyOnly
    /\ MessageOf(commit) = MsgChore /\ Added = 100 /\ Removed = 90
    /\ ret = "Refactoring"

\* "chore" with no line added stays Maintenance
C26_WitnessMaintenance ==
    /\ SSMCalled /\ MaintenanceVocabularyOnly
    /\ Added = 0 /\ Removed = 90 /\ ret = "Maintenance"

\* the pending call is hasPattern(message, PatternLists[arg])
HasPatternCalled == op = "hasPattern"

\* punctuation and whitespace a message may begin or end with
Affixes == {<<".">>, <<"!">>, <<" ">>, <<":">>}

\* C25: hasPattern gives the same answer for a message and for the message
\* with punctuation or whitespace appended or prepended ("update readme"
\* against "update readme.").
C25_AffixIndependent ==
    HasPatternCalled =>
        \A x \in Affixes :
            /\ hasPattern(MessageOf(commit) \o x, PatternLists[arg]) = ret
            /\ hasPattern(x \o MessageOf(commit), PatternLists[arg]) = ret

\* the consequence for the category: the category of the message does not
\* change when a full stop is appended
C25_SuffixKeepsCategory ==
    SSMCalled =>
        determineSSMCategory([commit EXCEPT !.message = @ \o <<".">>]) = ret

(***************************************************************************)
(* Properties of the views, continued                                      *)
(***************************************************************************)
\* the count and the set of types a result of categorizeCommits holds for
\* a category; 0 and the empty set when it has no group of that category
CountIn(groups, category) ==
    LET hits == {i \in 1..Len(groups) : groups[i].category = category}
    IN  IF hits = {} THEN 0 ELSE groups[CHOOSE i \in hits : TRUE].count

TypesIn(groups, category) ==
    UNION {{groups[i].types[k] : k \in 1..Len(groups[i].types)} :
              i \in {j \in 1..Len(groups) : groups[j].category = category}}

\* the eleven SSM categories
AllCategories ==
    {"Integration", "Rollback", "Architectural", "Feature", "Bug Fix",
     "Documentation", "Test", "Configuration", "Refactoring", "Maintenance",
     "Trivial"}

\* the list with the commits at positions i and j exchanged
Exchanged(list, i, j) ==
    [n \in 1..Len(list) |->
        IF n = i THEN list[j] ELSE IF n = j THEN list[i] ELSE list[n]]

C23_DisplayLeavesCommits ==
    [][(op' \in {"authorCommits", "setSortOrder"}) =>
           insights'.commits = insights.commits]_vars

\* the number of commits of the author's list whose quality is Good
GoodCommits ==
    Cardinality({i \in 1..Len(Commits) :
                    getQualityAssessment(Commits[i].additions,
                                         Commits[i].deletions,
                                         Len(Commits[i].files)) = "Good"})

\* C24: for an author with n > 0 commits of which k are of quality Good,
\* quality_score is an integer within 0..100 that differs from 100 * k / n
\* by at most one half, which is to say round(100 * k / n); with 21
\* commits of which 7 are Good it is 33.
C24_QualityScoreRounded ==
    op = "aggregateAuthor" =>
        LET n == Len(Commits)
            k == GoodCommits
            s == ret.value.quality_metrics.quality_score
        IN  /\ s \in 0..100
            /\ 2 * (100 * k - s * n) <= n
            /\ 2 * (s * n - 100 * k) <= n
            /\ (n = 21 /\ k = 7) => s = 33

\* 21 commits of which 7 are Good: 33
C24_Witness ==
    /\ op = "aggregateAuthor"
    /\ Len(Commits) = 21
    /\ GoodCommits = 7
    /\ ret.value.quality_metrics.quality_score = 33

\* 3 commits of which 2 are Good: 67, rounded up from 66.67
C24_WitnessRoundedUp ==
    /\ op = "aggregateAuthor"
    /\ Len(Commits) = 3
    /\ GoodCommits = 2
    /\ ret.value.quality_metrics.quality_score = 67

(***************************************************************************)
(* Properties of the components                                            *)
(***************************************************************************)
\* the modal is open on a commit and the request for it has been sent: it
\* is the last request
CurrentRequestSent ==
    /\ NoEffectPending
    /\ modal.isOpen /\ modal.commitSha # ""
    /\ Len(modal.requests) > 0

CurrentRequest == modal.requests[Len(modal.requests)]

\* C27: when commitSha changes while an earlier request is in flight and
\* the answers arrive in any order, then once every request is answered
\* (the current one with the commit) the commit in state is the one of
\* the current commitSha, and isLoading is never false while the current
\* request is pending.
C27_CurrentCommitWins ==
    CurrentRequestSent =>
        /\ ((\A i \in 1..Len(modal.requests) :
                 modal.requests[i].status # "pending")
             /\ CurrentRequest.status = "ok")
               => modal.commit = modal.commitSha
        /\ CurrentRequest.status = "pending" => modal.isLoading

\* the usernames insights lists
ListedAuthors ==
    IF "by_developer" \in DOMAIN insights
    THEN {insights.by_developer[i].username :
             i \in 1..Len(insights.by_developer)}
    ELSE {}

C28_WitnessKept ==
    /\ op = "selectedAuthorEffect"
    /\ Cardinality(ListedAuthors) = 2
    /\ ret = insights.by_developer[2].username
    /\ selectedAuthor = ret

FreePlan == tabs.userPlan = "Free"

C29_WitnessCompleted ==
    /\ FreePlan
    /\ op = "handleAnalysisComplete"
    /\ tabs.insights = 1 /\ ~tabs.isAnalyzing
    /\ tabs.activeTab = "upgrade"

\* C30: after any sequence of fetches of the branches (succeeding or
\* failing), toggles, select-all and clear-all, every name in
\* selectedBranches is the name of a listed branch, and no name is selected
\* twice.
C30_SelectionWithinBranches ==
    /\ \A i \in 1..Len(report.selectedBranches) :
          \E j \in 1..Len(report.branches) :
              report.branches[j] = report.selectedBranches[i]
    /\ \A i, j \in 1..Len(report.selectedBranches) :
          i # j => report.selectedBranches[i] # report.selectedBranches[j]

\* the part of C30 that holds: no name is selected twice
C30_NoDuplicates ==
    \A i, j \in 1..Len(report.selectedBranches) :
        i # j => report.selectedBranches[i] # report.selectedBranches[j]

=============================================================================
